---- MODULE Spec2Model ----
(***************************************************************************)
(* DailyTaskReminder: the JSON task store (storage.py), as a state machine. *)
(*                                                                         *)
(* The backing file is shared by several callers (the foreground request   *)
(* path, the reminder poller, other store instances).  Every store         *)
(* operation is split exactly where the code lets another caller in:       *)
(* _load is one locked read; _save is open("w") (which truncates before    *)
(* any lock is taken), flock(LOCK_EX) + json.dump into the file object's   *)
(* buffer, flock(LOCK_UN), and close, which flushes the buffer: the stores *)
(* of this model are a few hundred bytes, far below the buffer size, so    *)
(* nothing reaches the file before close.                                  *)
(*                                                                         *)
(* Timestamps are ISO strings compared as strings in the code; they are    *)
(* modelled as integers with the same order, 0 standing for None.          *)
(* Ids and id arguments are strings; they are modelled as tuples of        *)
(* one-character strings so that length and prefix are computed.           *)
(***************************************************************************)
EXTENDS Integers, Sequences, FiniteSets, TLC

\* ------------------------------------------------------------------ bounds
MaxAdds == 2        \* add calls in one run
MaxTime == 2        \* the clock runs 1..MaxTime
MaxCalls == 4       \* calls issued in one run of the concurrent callers
MaxStore == 2       \* records of a file that exists before the store is opened
MaxOrderCalls == 3  \* calls in one run on such a file

\* ------------------------------------------------------- program constants
IdLen == 8          \* uuid.uuid4().hex[:8]
MinPrefixLen == 4   \* if len(task_id) >= 4

NoTime == 0         \* None for due_at / remind_at
NoProc == "none"

Procs == {"fg", "bg"}      \* foreground request path, background poller
SeqProcs == {"fg"}         \* one caller: a sequential run

\* --------------------------------------------------------------- strings
\* str.startswith
StartsWith(s, prefix) ==
    /\ Len(prefix) <= Len(s)
    /\ \A i \in 1..Len(prefix) : s[i] = prefix[i]

Prefix(s, n) == SubSeq(s, 1, n)

Id1 == <<"a", "b", "c", "1", "2", "3", "4", "5">>
Id2 == <<"a", "b", "c", "1", "9", "9", "9", "9">>
Id3 == <<"a", "b", "c", "9", "9", "9", "9", "9">>

\* outcomes of uuid.uuid4().hex[:8]: nothing in add_task excludes a value
\* already in the file
UuidPool == {Id1, Id2}

\* ---------------------------------------------------------------- records
\* dict.get(key, default)
GetField(t, key, default) == IF key \in DOMAIN t THEN t[key] ELSE default

\* the task dict built by add_task
NewTask(id, title, description, due_at, remind_at, created_at) ==
    [id |-> id, title |-> title, description |-> description,
     due_at |-> due_at, remind_at |-> remind_at, status |-> "pending",
     notified |-> FALSE, created_at |-> created_at]

\* bytes json.dump(indent=2) writes for one record, relative to a pending,
\* un-notified record without due_at / remind_at ("null" is 4 bytes, a quoted
\* timestamp 21, "pending" 9, "completed" 11, false 5, true 4)
RecSize(t) ==
    216
    + (IF GetField(t, "due_at", NoTime) # NoTime THEN 17 ELSE 0)
    + (IF GetField(t, "remind_at", NoTime) # NoTime THEN 17 ELSE 0)
    + (IF t.status = "completed" THEN 2 ELSE 0)
    - (IF GetField(t, "notified", FALSE) THEN 1 ELSE 0)

\* bytes of json.dump(tasks, f, indent=2) followed by "\n"
RECURSIVE JsonSize(_)
JsonSize(tasks) ==
    IF tasks = <<>> THEN 3 ELSE RecSize(Head(tasks)) + JsonSize(Tail(tasks))

\* ------------------------------------------------------------------- state
VARIABLES
    file,           \* the backing file: [kind, ok, data, len]; ok = parses as JSON
    lock,           \* holder of flock(LOCK_EX), or NoProc
    now,            \* datetime.now(timezone.utc)
    pc,             \* per caller: where it is in its call
    op,             \* per caller: the call it runs, or ran last
    arg,            \* per caller: that call's argument
    local,          \* per caller: the list `tasks` it holds in memory
    ret,            \* per caller: the value that call returns
    calls,          \* calls issued so far by the concurrent callers
    issued,         \* ids generated by add_task so far, in order
    completedDone,  \* ids whose complete_task has returned the record
    deleted,        \* ids whose delete_task has returned the record
    delivered,      \* id -> number of get_due_reminders calls that returned it
    everNotified,   \* ids the file has held with notified = true
    everCompleted,  \* ids the file has held with status = completed
    committed,      \* the collection the file last held in full
    poller,         \* the reminder loop: where it is, its stop signal, its tick
    notifier,       \* the Notifier: its cached probe result and what it has sent
    resp,           \* per caller: the response of the tool it called last
    cli             \* InteractiveCLI: where run is, the line read, what its helpers computed

vars == <<file, lock, now, pc, op, arg, local, ret, calls, issued,
          completedDone, deleted, delivered, everNotified, everCompleted,
          committed, poller, notifier, resp, cli>>

procVars == <<pc, op, arg, local, ret>>
histVars == <<issued, completedDone, deleted, delivered>>
fileHist == <<everNotified, everCompleted, committed>>
frontVars == <<poller, notifier, resp, cli>>

\* ------------------------------------------------------------ file content
FileOf(tasks) ==
    [kind |-> "text", ok |-> TRUE, data |-> tasks, len |-> JsonSize(tasks)]

\* open(path, "w"): the file is cut to zero bytes
Truncated == [kind |-> "text", ok |-> FALSE, data |-> <<>>, len |-> 0]

\* no file at the path yet
Absent == [kind |-> "absent", ok |-> FALSE, data |-> <<>>, len |-> 0]

\* text that is no JSON document, such as {not json: json.load raises
\* JSONDecodeError
Garbled == [kind |-> "text", ok |-> FALSE, data |-> <<>>, len |-> 9]

\* bytes that are no UTF-8 text, such as a file saved as UTF-16: the read
\* inside json.load raises UnicodeDecodeError
Undecodable == [kind |-> "bytes", ok |-> FALSE, data |-> <<>>, len |-> 6]

Max(a, b) == IF a >= b THEN a ELSE b

\* the buffered bytes reach the file at offset 0.  What the file held beyond
\* them stays: a tail of one byte is the final newline and the file still
\* parses; a longer tail is "Extra data" to json.load.
Flushed(f, tasks) ==
    IF JsonSize(tasks) + 1 >= f.len
    THEN [kind |-> "text", ok |-> TRUE, data |-> tasks,
          len |-> Max(f.len, JsonSize(tasks))]
    ELSE [kind |-> "text", ok |-> FALSE, data |-> <<>>, len |-> f.len]

\* _load: json.load, and [] on JSONDecodeError
LoadNothing(f) == <<>>

Load(f) == IF f.ok THEN f.data ELSE <<>>

Ids(tasks) == { tasks[i].id : i \in 1..Len(tasks) }

\* ------------------------------------------------------------- pure parts
\* for t in tasks: if t["id"] == task_id: return t
RECURSIVE FirstExact(_, _)
FirstExact(tasks, task_id) ==
    IF tasks = <<>> THEN <<>>
    ELSE IF Head(tasks).id = task_id THEN <<Head(tasks)>>
    ELSE FirstExact(Tail(tasks), task_id)

\* [t for t in tasks if t["id"].startswith(task_id)]
PrefixMatches(tasks, task_id) ==
    LET Test(t) == StartsWith(t.id, task_id) IN SelectSeq(tasks, Test)

\* get_task, after its _load: <<record>>, or <<>> for None
get_task_first_match(tasks, task_id) ==
    LET exact == FirstExact(tasks, task_id)
        matches == PrefixMatches(tasks, task_id)
    IN  IF exact # <<>> THEN exact
        ELSE IF Len(task_id) >= MinPrefixLen /\ Len(matches) >= 1
             THEN <<matches[1]>>
             ELSE <<>>

get_task(tasks, task_id) ==
    LET exact == FirstExact(tasks, task_id)
        matches == PrefixMatches(tasks, task_id)
    IN  IF exact # <<>> THEN exact
        ELSE IF Len(task_id) >= MinPrefixLen /\ Len(matches) = 1
             THEN <<matches[1]>>
             ELSE <<>>

\* _find: the position in tasks of the record found, 0 for None
_find_first_match(tasks, task_id) ==
    LET exact == { i \in 1..Len(tasks) : tasks[i].id = task_id }
        matches == { i \in 1..Len(tasks) : StartsWith(tasks[i].id, task_id) }
    IN  IF exact # {} THEN CHOOSE i \in exact : \A j \in exact : i <= j
        ELSE IF Len(task_id) >= MinPrefixLen /\ Cardinality(matches) >= 1
             THEN CHOOSE i \in matches : \A j \in matches : i <= j
             ELSE 0

_find_short_prefix(tasks, task_id) ==
    LET exact == { i \in 1..Len(tasks) : tasks[i].id = task_id }
        matches == { i \in 1..Len(tasks) : StartsWith(tasks[i].id, task_id) }
    IN  IF exact # {} THEN CHOOSE i \in exact : \A j \in exact : i <= j
        ELSE IF Cardinality(matches) = 1
             THEN CHOOSE i \in matches : TRUE
             ELSE 0

_find(tasks, task_id) ==
    LET exact == { i \in 1..Len(tasks) : tasks[i].id = task_id }
        matches == { i \in 1..Len(tasks) : StartsWith(tasks[i].id, task_id) }
    IN  IF exact # {} THEN CHOOSE i \in exact : \A j \in exact : i <= j
        ELSE IF Len(task_id) >= MinPrefixLen /\ Cardinality(matches) = 1
             THEN CHOOSE i \in matches : TRUE
             ELSE 0

\* list_tasks on the loaded list
list_tasks_overdue_le(tasks, status_filter, clock) ==
    LET IsPending(t) == t.status = "pending"
        IsCompleted(t) == t.status = "completed"
        IsOverdue(t) == /\ t.status = "pending"
                        /\ GetField(t, "due_at", NoTime) # NoTime
                        /\ t.due_at <= clock
    IN  CASE status_filter = "all" -> tasks
          [] status_filter = "pending" -> SelectSeq(tasks, IsPending)
          [] status_filter = "completed" -> SelectSeq(tasks, IsCompleted)
          [] status_filter = "overdue" -> SelectSeq(tasks, IsOverdue)
          [] OTHER -> tasks

list_tasks(tasks, status_filter, clock) ==
    LET IsPending(t) == t.status = "pending"
        IsCompleted(t) == t.status = "completed"
        IsOverdue(t) == /\ t.status = "pending"
                        /\ GetField(t, "due_at", NoTime) # NoTime
                        /\ t.due_at < clock
    IN  CASE status_filter = "all" -> tasks
          [] status_filter = "pending" -> SelectSeq(tasks, IsPending)
          [] status_filter = "completed" -> SelectSeq(tasks, IsCompleted)
          [] status_filter = "overdue" -> SelectSeq(tasks, IsOverdue)
          [] OTHER -> tasks

\* task.update(fields): fields is a record of replacements
UpdateFields(t, fields) ==
    [k \in (DOMAIN t) \cup (DOMAIN fields) |->
        IF k \in DOMAIN fields THEN fields[k] ELSE t[k]]

\* the test of the list comprehension of get_due_reminders
IsDueIgnoringNotified(t, clock) ==
    /\ t.status = "pending"
    /\ GetField(t, "remind_at", NoTime) # NoTime
    /\ t.remind_at <= clock

IsDueStrict(t, clock) ==
    /\ t.status = "pending"
    /\ GetField(t, "remind_at", NoTime) # NoTime
    /\ t.remind_at < clock
    /\ ~GetField(t, "notified", FALSE)

\* the test with t["notified"] in place of t.get("notified", False), a record
\* without the key being passed over
IsDueNotifiedRequired(t, clock) ==
    /\ t.status = "pending"
    /\ GetField(t, "remind_at", NoTime) # NoTime
    /\ t.remind_at <= clock
    /\ "notified" \in DOMAIN t
    /\ ~t.notified

IsDue(t, clock) ==
    /\ t.status = "pending"
    /\ GetField(t, "remind_at", NoTime) # NoTime
    /\ t.remind_at <= clock
    /\ ~GetField(t, "notified", FALSE)

\* for t in due: t["notified"] = True  (the dicts of `due` are those of `tasks`)
MarkNotified(tasks, clock) ==
    [i \in 1..Len(tasks) |->
        IF IsDue(tasks[i], clock)
        THEN UpdateFields(tasks[i], [notified |-> TRUE])
        ELSE tasks[i]]

DueOf(tasks, clock) ==
    LET Test(t) == IsDue(t, clock) IN SelectSeq(tasks, Test)

\* tasks.remove(task): the first element equal to it
Remove(tasks, t) ==
    LET i == CHOOSE k \in 1..Len(tasks) :
                 tasks[k] = t /\ \A j \in 1..(k - 1) : tasks[j] # t
    IN  SubSeq(tasks, 1, i - 1) \o SubSeq(tasks, i + 1, Len(tasks))


\* ------------------------------------------------------------------ inputs
NoArg == [id |-> <<>>, filter |-> "", clock |-> 0]

Titles == {"A"}
Descriptions == {""}
Dues == {NoTime}
Reminds == {1, 2}            \* due from the start; due once the clock reads 2
Filters == {"all"}

\* id arguments: the full ids and a 4-character prefix that both ids share
Queries == UuidPool \cup {Prefix(Id1, MinPrefixLen)}

\* _reminder_loop entered, before its first wait: no stop signal, nothing
\* computed yet; `since` is the time the wait under way began
PollerInit ==
    [at |-> "waiting", waited |-> 0, since |-> 1, stop |-> FALSE, alive |-> TRUE,
     queue |-> <<>>, returned |-> <<>>, called |-> <<>>,
     ticks |-> 0, failed |-> 0, stopped_at |-> NoTime]

\* Notifier.__init__: self._has_notify_send = None; nothing written yet
NotifierInit ==
    [has_notify_send |-> "None", probes |-> 0, invoked |-> <<>>, out |-> <<>>,
     launch |-> "none"]

\* payload.get(key) of a key the payload lacks: None, which is no string
None == <<"None">>
NoFilter == "None"

\* a payload with no key; the keys that name times hold None as NoTime
EmptyPayload ==
    [title |-> None, description |-> None, due_at |-> NoTime,
     remind_at |-> NoTime, task_id |-> None, filter |-> NoFilter]

\* no request made yet
NoResponse ==
    [kind |-> "none", tasks |-> <<>>, error |-> "", tool |-> "none",
     payload |-> EmptyPayload]

\* InteractiveCLI before run: nothing read, nothing parsed
NoCli ==
    [at |-> "none", pending |-> FALSE, line |-> <<>>, args |-> <<>>, flags |-> {},
     title |-> <<>>, opts |-> <<>>, value |-> <<>>, once |-> <<>>, twice |-> <<>>]

\* ----------------------------------------------------------- initial state
Init ==
    /\ file = FileOf(<<>>)          \* _ensure_storage: _save([])
    /\ lock = NoProc
    /\ now = 1
    /\ pc = [p \in Procs |-> "idle"]
    /\ op = [p \in Procs |-> "none"]
    /\ arg = [p \in Procs |-> NoArg]
    /\ local = [p \in Procs |-> <<>>]
    /\ ret = [p \in Procs |-> <<>>]
    /\ calls = 0
    /\ issued = <<>>
    /\ completedDone = {}
    /\ deleted = {}
    /\ delivered = [id \in UuidPool |-> 0]
    /\ everNotified = {}
    /\ everCompleted = {}
    /\ committed = <<>>
    /\ poller = PollerInit
    /\ notifier = NotifierInit
    /\ resp = [p \in Procs |-> NoResponse]
    /\ cli = NoCli

\* ------------------------------------------------------------- bookkeeping
NotifiedIds(tasks) ==
    { tasks[i].id : i \in { j \in 1..Len(tasks) : GetField(tasks[j], "notified", FALSE) } }

CompletedIds(tasks) ==
    { tasks[i].id : i \in { j \in 1..Len(tasks) : tasks[j].status = "completed" } }

\* what the file has shown so far, after a step that wrote it
FileSeen ==
    /\ everNotified' = everNotified \cup NotifiedIds(Load(file'))
    /\ everCompleted' = everCompleted \cup CompletedIds(Load(file'))
    /\ committed' = IF file'.ok THEN file'.data ELSE committed

\* the call of p returns after its save: its entry in the record of calls
Returned(p) ==
    /\ completedDone' =
          IF op[p] = "complete" THEN completedDone \cup Ids(ret[p]) ELSE completedDone
    /\ deleted' = IF op[p] = "delete" THEN deleted \cup Ids(ret[p]) ELSE deleted
    /\ delivered' =
          IF op[p] = "due"
          THEN [id \in DOMAIN delivered |->
                   IF id \in Ids(ret[p]) THEN delivered[id] + 1 ELSE delivered[id]]
          ELSE delivered

\* p moves on: to the save of `tasks` when there is one, else it has returned
Proceed(p, where, name, a, tasks, result) ==
    /\ pc' = [pc EXCEPT ![p] = where]
    /\ op' = [op EXCEPT ![p] = name]
    /\ arg' = [arg EXCEPT ![p] = a]
    /\ local' = [local EXCEPT ![p] = tasks]
    /\ ret' = [ret EXCEPT ![p] = result]

\* a call starts with _load, whose flock(LOCK_SH) waits while another caller
\* holds LOCK_EX; open(path, "r", encoding="utf-8") and json.load read text
CanLoad(p) == pc[p] = "idle" /\ lock = NoProc /\ file.kind = "text"

\* ---------------------------------------------------------------- actions
\* add_task up to its _save: build the dict, _load, append
AddTaskFront(p, title, description, due_at, remind_at, id) ==
    /\ CanLoad(p)
    /\ Len(issued) < MaxAdds
    /\ LET task == NewTask(id, title, description, due_at, remind_at, now)
       IN  Proceed(p, "loaded", "add", NoArg, <<task>> \o Load(file), <<task>>)
    /\ issued' = Append(issued, id)
    /\ UNCHANGED <<file, lock, now, completedDone, deleted, delivered, fileHist>>

AddTask(p, title, description, due_at, remind_at, id) ==
    /\ CanLoad(p)
    /\ Len(issued) < MaxAdds
    /\ LET task == NewTask(id, title, description, due_at, remind_at, now)
       IN  Proceed(p, "loaded", "add", NoArg, Append(Load(file), task), <<task>>)
    /\ issued' = Append(issued, id)
    /\ UNCHANGED <<file, lock, now, completedDone, deleted, delivered, fileHist>>

\* get_task
GetTask(p, task_id) ==
    /\ CanLoad(p)
    /\ Proceed(p, "idle", "get", [NoArg EXCEPT !.id = task_id], <<>>,
               get_task(Load(file), task_id))
    /\ UNCHANGED <<file, lock, now, histVars, fileHist>>

\* list_tasks that saves the list it selected
ListTasksSaving(p, status_filter) ==
    /\ CanLoad(p)
    /\ LET result == list_tasks(Load(file), status_filter, now)
       IN  Proceed(p, "loaded", "list",
                   [NoArg EXCEPT !.filter = status_filter, !.clock = now],
                   result, result)
    /\ UNCHANGED <<file, lock, now, histVars, fileHist>>

\* list_tasks
ListTasks(p, status_filter) ==
    /\ CanLoad(p)
    /\ Proceed(p, "idle", "list",
               [NoArg EXCEPT !.filter = status_filter, !.clock = now],
               <<>>, list_tasks(Load(file), status_filter, now))
    /\ UNCHANGED <<file, lock, now, histVars, fileHist>>

\* update_task that takes the task out of the list and appends the updated one
UpdateTaskReappend(p, name, task_id, fields) ==
    /\ CanLoad(p)
    /\ LET tasks == Load(file)
           i == _find(tasks, task_id)
           a == [NoArg EXCEPT !.id = task_id]
       IN  IF i = 0
           THEN Proceed(p, "idle", name, a, <<>>, <<>>)
           ELSE LET task == UpdateFields(tasks[i], fields)
                IN  Proceed(p, "loaded", name, a,
                            Append(Remove(tasks, tasks[i]), task), <<task>>)
    /\ UNCHANGED <<file, lock, now, histVars, fileHist>>

\* update_task up to its _save; None is returned without a save
UpdateTask(p, name, task_id, fields) ==
    /\ CanLoad(p)
    /\ LET tasks == Load(file)
           i == _find(tasks, task_id)
           a == [NoArg EXCEPT !.id = task_id]
       IN  IF i = 0
           THEN Proceed(p, "idle", name, a, <<>>, <<>>)
           ELSE LET task == UpdateFields(tasks[i], fields)
                IN  Proceed(p, "loaded", name, a, [tasks EXCEPT ![i] = task], <<task>>)
    /\ UNCHANGED <<file, lock, now, histVars, fileHist>>

\* complete_task
CompleteTask(p, task_id) ==
    UpdateTask(p, "complete", task_id, [status |-> "completed"])

\* delete_task up to its _save; None is returned without a save
DeleteTask(p, task_id) ==
    /\ CanLoad(p)
    /\ LET tasks == Load(file)
           i == _find(tasks, task_id)
           a == [NoArg EXCEPT !.id = task_id]
       IN  IF i = 0
           THEN Proceed(p, "idle", "delete", a, <<>>, <<>>)
           ELSE Proceed(p, "loaded", "delete", a, Remove(tasks, tasks[i]), <<tasks[i]>>)
    /\ UNCHANGED <<file, lock, now, histVars, fileHist>>

\* get_due_reminders that saves the list whether or not a task is due
GetDueRemindersAlwaysSaves(p) ==
    /\ CanLoad(p)
    /\ LET tasks == Load(file)
           a == [NoArg EXCEPT !.clock = now]
           due == DueOf(tasks, now)
       IN  Proceed(p, "loaded", "due", a, MarkNotified(tasks, now),
                   [i \in 1..Len(due) |-> UpdateFields(due[i], [notified |-> TRUE])])
    /\ UNCHANGED <<file, lock, now, histVars, fileHist>>

\* get_due_reminders up to its _save; nothing due: [] is returned without a save
GetDueReminders(p) ==
    /\ CanLoad(p)
    /\ LET tasks == Load(file)
           a == [NoArg EXCEPT !.clock = now]
           due == DueOf(tasks, now)
       IN  IF due = <<>>
           THEN Proceed(p, "idle", "due", a, <<>>, <<>>)
           ELSE Proceed(p, "loaded", "due", a, MarkNotified(tasks, now),
                        [i \in 1..Len(due) |-> UpdateFields(due[i], [notified |-> TRUE])])
    /\ UNCHANGED <<file, lock, now, histVars, fileHist>>

\* _save, open(self.path, "w"): the file is truncated, no lock is held yet
SaveOpen(p) ==
    /\ pc[p] = "loaded"
    /\ file' = Truncated
    /\ pc' = [pc EXCEPT ![p] = "opened"]
    /\ FileSeen
    /\ UNCHANGED <<lock, now, op, arg, local, ret, histVars>>

\* _save, flock(LOCK_EX), then json.dump and f.write: into the buffer
SaveLock(p) ==
    /\ pc[p] = "opened"
    /\ lock = NoProc
    /\ lock' = p
    /\ pc' = [pc EXCEPT ![p] = "locked"]
    /\ UNCHANGED <<file, now, op, arg, local, ret, histVars, fileHist>>

\* _save, finally: flock(LOCK_UN)
SaveUnlock(p) ==
    /\ pc[p] = "locked"
    /\ lock' = NoProc
    /\ pc' = [pc EXCEPT ![p] = "unlocked"]
    /\ UNCHANGED <<file, now, op, arg, local, ret, histVars, fileHist>>

\* _save, end of the with block: close flushes the buffer into the file;
\* then the call returns
SaveClose(p) ==
    /\ pc[p] = "unlocked"
    /\ file' = Flushed(file, local[p])
    /\ pc' = [pc EXCEPT ![p] = "idle"]
    /\ local' = [local EXCEPT ![p] = <<>>]
    /\ FileSeen
    /\ Returned(p)
    /\ UNCHANGED <<lock, now, op, arg, ret, issued>>

\* TaskStorage(path): __init__ runs _ensure_storage, which saves [] when no
\* file is at the path; the test and the save are separate steps
Construct(p) ==
    /\ pc[p] = "new"
    /\ IF file.kind = "absent"
       THEN Proceed(p, "loaded", "init", NoArg, <<>>, <<>>)
       ELSE Proceed(p, "idle", "init", NoArg, <<>>, <<>>)
    /\ UNCHANGED <<file, lock, now, histVars, fileHist>>

\* a call whose _load raises: only json.JSONDecodeError is caught there, so
\* the exception leaves the call
LoadRaises(p, name) ==
    /\ pc[p] = "idle"
    /\ lock = NoProc
    /\ file.kind = "bytes"
    /\ Proceed(p, "raised", name, NoArg, <<>>, <<>>)
    /\ UNCHANGED <<file, lock, now, histVars, fileHist>>

\* the clock advances
Tick ==
    /\ now < MaxTime
    /\ now' = now + 1
    /\ UNCHANGED <<file, lock, procVars, histVars, fileHist>>

\* caller p issues a call
Call(p) ==
    \/ \E title \in Titles, description \in Descriptions, due_at \in Dues,
          remind_at \in Reminds, id \in UuidPool :
          AddTask(p, title, description, due_at, remind_at, id)
    \/ \E task_id \in Queries : GetTask(p, task_id)
    \/ \E status_filter \in Filters : ListTasks(p, status_filter)
    \/ \E task_id \in Queries : CompleteTask(p, task_id)
    \/ \E task_id \in Queries : DeleteTask(p, task_id)
    \/ GetDueReminders(p)

\* caller p goes on with the _save of its call
Continue(p) ==
    \/ SaveOpen(p)
    \/ SaveLock(p)
    \/ SaveUnlock(p)
    \/ SaveClose(p)

\* callers sharing one backing file, interleaved; MaxCalls calls in all
Next ==
    \/ Tick /\ UNCHANGED <<calls, frontVars>>
    \/ \E p \in Procs : calls < MaxCalls /\ Call(p) /\ calls' = calls + 1 /\ UNCHANGED frontVars
    \/ \E p \in Procs : Continue(p) /\ UNCHANGED <<calls, frontVars>>

Spec == Init /\ [][Next]_vars

\* one caller: every call runs to its end before the next starts
NextSeq ==
    \/ Tick /\ UNCHANGED <<calls, frontVars>>
    \/ \E p \in SeqProcs : Call(p) /\ UNCHANGED <<calls, frontVars>>
    \/ \E p \in SeqProcs : Continue(p) /\ UNCHANGED <<calls, frontVars>>

SpecSeq == Init /\ [][NextSeq]_vars

\* ------------------------------------------------- lookups on a given file
\* The store is opened on a file that exists already (_ensure_storage leaves
\* it alone).  The file is human-editable, so its ids need not be the
\* 8 characters add_task generates.
StoreIds == {Id1, Id2, Id3, Prefix(Id1, MinPrefixLen), Prefix(Id1, 5)}

StoreRecords == { NewTask(id, "A", "", NoTime, NoTime, 1) : id \in StoreIds }

Stores == UNION { [1..n -> StoreRecords] : n \in 0..MaxStore }

GetQueries ==
    { Prefix(Id1, n) : n \in 0..IdLen } \cup { Prefix(Id2, n) : n \in 5..IdLen }
    \cup {Id3, <<"z", "z", "z", "z">>}

InitGet ==
    /\ file \in { FileOf(store) : store \in Stores }
    /\ lock = NoProc
    /\ now = 1
    /\ pc = [p \in Procs |-> "idle"]
    /\ op = [p \in Procs |-> "none"]
    /\ arg = [p \in Procs |-> NoArg]
    /\ local = [p \in Procs |-> <<>>]
    /\ ret = [p \in Procs |-> <<>>]
    /\ calls = 0
    /\ issued = <<>>
    /\ completedDone = {}
    /\ deleted = {}
    /\ delivered = [id \in UuidPool |-> 0]
    /\ everNotified = {}
    /\ everCompleted = {}
    /\ committed = Load(file)
    /\ poller = PollerInit
    /\ notifier = NotifierInit
    /\ resp = [p \in Procs |-> NoResponse]
    /\ cli = NoCli

NextGet ==
    \E p \in SeqProcs, task_id \in GetQueries : GetTask(p, task_id) /\ UNCHANGED <<calls, frontVars>>

SpecGet == InitGet /\ [][NextGet]_vars

\* ------------------------------------------- one call on a file that exists
\* the state before any call, the file being one of `files` and the clock
\* reading one of `clocks`; every process is at `where`: "idle" once its
\* store is constructed, "new" before
InitWith(files, clocks, where, clis) ==
    /\ file \in files
    /\ lock = NoProc
    /\ now \in clocks
    /\ pc = [p \in Procs |-> where]
    /\ op = [p \in Procs |-> "none"]
    /\ arg = [p \in Procs |-> NoArg]
    /\ local = [p \in Procs |-> <<>>]
    /\ ret = [p \in Procs |-> <<>>]
    /\ calls = 0
    /\ issued = <<>>
    /\ completedDone = {}
    /\ deleted = {}
    /\ delivered = [id \in UuidPool |-> 0]
    /\ everNotified = {}
    /\ everCompleted = {}
    /\ committed = Load(file)
    /\ poller = PollerInit
    /\ notifier = NotifierInit
    /\ resp = [p \in Procs |-> NoResponse]
    /\ cli \in clis

InitOn(files, clocks, where) == InitWith(files, clocks, where, {NoCli})

\* p has made no call yet
FirstCall(p) == op[p] = "none"

\* id arguments of get / update / complete / delete: too short, a prefix two
\* records can share, a prefix of one id, full ids, no id at all
FindQueries ==
    {Prefix(Id1, 3), Prefix(Id1, MinPrefixLen), Prefix(Id1, 5), Id1, Id2,
     <<"z", "z", "z", "z">>}

InitFind == InitOn({ FileOf(store) : store \in Stores }, {1}, "idle")

\* get_task, update_task, complete_task or delete_task, called once on the
\* file
NextFind ==
    \/ \E p \in SeqProcs, task_id \in FindQueries :
          /\ FirstCall(p)
          /\ \/ GetTask(p, task_id)
             \/ UpdateTask(p, "update", task_id, [title |-> "B"])
             \/ CompleteTask(p, task_id)
             \/ DeleteTask(p, task_id)
          /\ UNCHANGED <<calls, frontVars>>
    \/ \E p \in SeqProcs : Continue(p) /\ UNCHANGED <<calls, frontVars>>

SpecFind == InitFind /\ [][NextFind]_vars

\* ----------------------------------------- files of records of every shape
\* the i-th record of a file: ids differ in their last character
Digits == <<"1", "2", "3", "4", "5", "6", "7", "8", "9">>
IdAt(i) == [Id3 EXCEPT ![IdLen] = Digits[i]]

Clocks == 1..MaxTime
Stamps == {NoTime} \cup 1..(MaxTime + 1)   \* None, past, now, later

WithIds(store) == [i \in 1..Len(store) |-> [store[i] EXCEPT !.id = IdAt(i)]]

FilesOf(records) ==
    { FileOf(WithIds(store)) :
          store \in UNION { [1..n -> records] : n \in 0..MaxStore } }

\* records as add_task, complete_task and get_due_reminders leave them, and
\* hand-written ones that lack the optional fields
DueRecords ==
    { [NewTask(Id3, "A", "", NoTime, remind_at, 1)
          EXCEPT !.status = status, !.notified = notified] :
          remind_at \in Stamps, status \in {"pending", "completed"},
          notified \in BOOLEAN }
    \cup { [id |-> Id3, title |-> "A", status |-> "pending", remind_at |-> remind_at] :
              remind_at \in Stamps \ {NoTime} }
    \cup { [id |-> Id3, title |-> "A", status |-> "pending"] }

InitDue == InitOn(FilesOf(DueRecords), Clocks, "idle")

\* get_due_reminders, called once on the file
NextDue ==
    \/ \E p \in SeqProcs : FirstCall(p) /\ GetDueReminders(p) /\ UNCHANGED <<calls, frontVars>>
    \/ \E p \in SeqProcs : Continue(p) /\ UNCHANGED <<calls, frontVars>>

SpecDue == InitDue /\ [][NextDue]_vars

ListRecords ==
    { [NewTask(Id3, "A", "", due_at, NoTime, 1) EXCEPT !.status = status] :
          due_at \in Stamps, status \in {"pending", "completed"} }
    \cup { [id |-> Id3, title |-> "A", status |-> "pending"] }

ListFilters == {"all", "pending", "completed", "overdue"}

InitList == InitOn(FilesOf(ListRecords), Clocks, "idle")

\* list_tasks, called once on the file
NextList ==
    \E p \in SeqProcs, status_filter \in ListFilters :
        FirstCall(p) /\ ListTasks(p, status_filter) /\ UNCHANGED <<calls, frontVars>>

SpecList == InitList /\ [][NextList]_vars

\* ------------------------------------- a run of calls on a file that exists
OrderRecords ==
    { [NewTask(Id3, "A", "", NoTime, remind_at, 1) EXCEPT !.status = status] :
          remind_at \in {NoTime, 1}, status \in {"pending", "completed"} }

\* the ids of the records the file starts with and of the records added
OrderQueries == { IdAt(i) : i \in 1..(MaxStore + MaxAdds) }

InitOrder == InitOn(FilesOf(OrderRecords), {1}, "idle")

\* one caller, MaxOrderCalls calls; the k-th add_task draws an id that is
\* not in the file
NextOrder ==
    \/ \E p \in SeqProcs :
          /\ calls < MaxOrderCalls
          /\ calls' = calls + 1 /\ UNCHANGED frontVars
          /\ \/ \E remind_at \in {NoTime, 1} :
                   AddTask(p, "A", "", NoTime, remind_at,
                           IdAt(MaxStore + Len(issued) + 1))
             \/ \E task_id \in OrderQueries : CompleteTask(p, task_id)
             \/ \E task_id \in OrderQueries : DeleteTask(p, task_id)
             \/ GetDueReminders(p)
             \/ \E status_filter \in ListFilters : ListTasks(p, status_filter)
    \/ \E p \in SeqProcs : Continue(p) /\ UNCHANGED <<calls, frontVars>>

SpecOrder == InitOrder /\ [][NextOrder]_vars

\* ------------------------------------------ two callers, one call each
InitPair == InitOn(FilesOf(OrderRecords), {1}, "idle")

\* each caller makes one call on the file, and the calls interleave
NextPair ==
    \/ \E p \in Procs :
          /\ FirstCall(p)
          /\ \/ \E remind_at \in {NoTime, 1} :
                   AddTask(p, "A", "", NoTime, remind_at,
                           IdAt(MaxStore + Len(issued) + 1))
             \/ \E task_id \in OrderQueries : CompleteTask(p, task_id)
             \/ \E task_id \in OrderQueries : DeleteTask(p, task_id)
             \/ GetDueReminders(p)
             \/ \E task_id \in OrderQueries : GetTask(p, task_id)
             \/ \E status_filter \in ListFilters : ListTasks(p, status_filter)
          /\ UNCHANGED <<calls, frontVars>>
    \/ \E p \in Procs : Continue(p) /\ UNCHANGED <<calls, frontVars>>

SpecPair == InitPair /\ [][NextPair]_vars

\* --------------------------------------------- a file that does not parse
\* an empty file, text that is no JSON, bytes that are no text
BadFiles == {Truncated, Garbled, Undecodable}

CallNames == {"add", "get", "list", "complete", "delete", "due"}

InitBad == InitOn(BadFiles, {1}, "idle")

\* one caller, MaxOrderCalls calls on such a file
NextBad ==
    \/ \E p \in SeqProcs :
          /\ calls < MaxOrderCalls
          /\ calls' = calls + 1 /\ UNCHANGED frontVars
          /\ \/ \E remind_at \in {NoTime, 1} :
                   AddTask(p, "A", "", NoTime, remind_at,
                           IdAt(MaxStore + Len(issued) + 1))
             \/ \E task_id \in OrderQueries : GetTask(p, task_id)
             \/ \E task_id \in OrderQueries : CompleteTask(p, task_id)
             \/ \E task_id \in OrderQueries : DeleteTask(p, task_id)
             \/ GetDueReminders(p)
             \/ \E status_filter \in ListFilters : ListTasks(p, status_filter)
             \/ \E name \in CallNames : LoadRaises(p, name)
    \/ \E p \in SeqProcs : Continue(p) /\ UNCHANGED <<calls, frontVars>>

SpecBad == InitBad /\ [][NextBad]_vars

\* ------------------------------------------- store instances on one path
\* each process constructs its own TaskStorage on the path, then calls it
\* on a path with no file, an empty store, or a store of one record
InstFiles ==
    {Absent, FileOf(<<>>)} \cup { FileOf(WithIds(<<r>>)) : r \in OrderRecords }

InitInst == InitOn(InstFiles, {1}, "new")

\* no operation of any instance is under way
Serial == \A q \in Procs : pc[q] \in {"new", "idle"}

InstCall(p) ==
    \/ \E remind_at \in {NoTime, 1} :
          AddTask(p, "A", "", NoTime, remind_at, IdAt(MaxStore + Len(issued) + 1))
    \/ ListTasks(p, "all")
    \/ \E task_id \in OrderQueries : CompleteTask(p, task_id)
    \/ \E task_id \in OrderQueries : DeleteTask(p, task_id)

\* the operations of the instances follow one another
NextInst ==
    \/ \E p \in Procs : Serial /\ Construct(p) /\ UNCHANGED <<calls, frontVars>>
    \/ \E p \in Procs :
          Serial /\ calls < MaxCalls /\ InstCall(p) /\ calls' = calls + 1 /\ UNCHANGED frontVars
    \/ \E p \in Procs : Continue(p) /\ UNCHANGED <<calls, frontVars>>

SpecInst == InitInst /\ [][NextInst]_vars

\* the constructions and the operations of the instances interleave
NextInit ==
    \/ \E p \in Procs : Construct(p) /\ UNCHANGED <<calls, frontVars>>
    \/ \E p \in Procs : calls < MaxCalls /\ InstCall(p) /\ calls' = calls + 1 /\ UNCHANGED frontVars
    \/ \E p \in Procs : Continue(p) /\ UNCHANGED <<calls, frontVars>>

SpecInit == InitInst /\ [][NextInit]_vars

\* ------------------------------------- files edited by hand, one call each
\* records as add_task writes them and records that lack optional keys
LooseRecords ==
    { NewTask(Id3, "A", "", due_at, remind_at, 1) : due_at, remind_at \in {NoTime, 1} }
    \cup { [id |-> Id3, title |-> "A", status |-> "pending", remind_at |-> 1],
           [id |-> Id3, title |-> "A", status |-> "pending", due_at |-> 1],
           [id |-> Id3, title |-> "A", status |-> "pending"],
           [id |-> Id3, title |-> "A", status |-> "completed", remind_at |-> 1] }

InitLoose == InitOn(FilesOf(LooseRecords), Clocks, "idle")

\* get_due_reminders or list_tasks, called once on the file
NextLoose ==
    \/ \E p \in SeqProcs : FirstCall(p) /\ GetDueReminders(p) /\ UNCHANGED <<calls, frontVars>>
    \/ \E p \in SeqProcs, status_filter \in ListFilters :
          FirstCall(p) /\ ListTasks(p, status_filter) /\ UNCHANGED <<calls, frontVars>>
    \/ \E p \in SeqProcs : Continue(p) /\ UNCHANGED <<calls, frontVars>>

SpecLoose == InitLoose /\ [][NextLoose]_vars

\* ------------------------------------------------------- the tool adapters
\* strings a request carries are tuples of characters
Space == " "
Whitespace == {Space, "\t", "\n"}

\* str.lstrip, str.rstrip, str.strip
RECURSIVE lstrip(_)
lstrip(s) ==
    IF s # <<>> /\ Head(s) \in Whitespace THEN lstrip(Tail(s)) ELSE s

RECURSIVE rstrip(_)
rstrip(s) ==
    IF s # <<>> /\ s[Len(s)] \in Whitespace
    THEN rstrip(SubSeq(s, 1, Len(s) - 1))
    ELSE s

strip(s) == rstrip(lstrip(s))

\* MCPResponse.success(request, result): the tasks the result carries
Success(request, tasks) ==
    [kind |-> "success", tasks |-> tasks, error |-> "",
     tool |-> request.tool, payload |-> request.payload]

\* MCPResponse.failure(request, message)
Failure(request, message) ==
    [kind |-> "failure", tasks |-> <<>>, error |-> message,
     tool |-> request.tool, payload |-> request.payload]

\* resp.is_success()
is_success(r) == r.kind = "success"

\* a handler that raises instead of returning a response
Raised(request, exception) ==
    [kind |-> "raised", tasks |-> <<>>, error |-> exception,
     tool |-> request.tool, payload |-> request.payload]

\* ToolRouter.route: the handler's response; what a handler raises is
\* wrapped into a failure response
route(r) ==
    IF r.kind = "raised" THEN [r EXCEPT !.kind = "failure"] ELSE r

\* MCPRequest(id, tool, payload)
Request(tool, payload) == [tool |-> tool, payload |-> payload]

\* payload.get(key, default)
PayloadGet(payload, key, default) ==
    IF payload[key] = None THEN default ELSE payload[key]

\* `not value` for a string or None
Falsy(value) == value = None \/ value = <<>>

\* VALID_FILTERS
VALID_FILTERS == {"all", "pending", "completed", "overdue"}

\* a filter value that is a JSON array: `in` on a set raises TypeError for it
ArrayFilter == "[]"
Hashable(v) == v # ArrayFilter

\* the response to request `r` is `response`
Respond(p, response) == resp' = [resp EXCEPT ![p] = route(response)]

\* the store is not called
StoreUntouched ==
    UNCHANGED <<file, lock, now, procVars, histVars, fileHist>>

\* the store call of a handler raises out of its _load
StoreRaises(p, name, request) ==
    /\ LoadRaises(p, name)
    /\ Respond(p, Raised(request, "UnicodeDecodeError"))

\* AddTaskTool.handle that tests `not title` only
AddTaskToolUnstripped(p, payload, id) ==
    LET request == Request("addtask", payload)
        title == payload.title
    IN  IF Falsy(title)
        THEN /\ Respond(p, Failure(request, "Payload must include a non-empty 'title'."))
             /\ StoreUntouched
        ELSE \/ /\ AddTask(p, title, strip(PayloadGet(payload, "description", <<>>)),
                           payload.due_at,
                           payload.remind_at, id)
                /\ Respond(p, Success(request, ret'[p]))
             \/ StoreRaises(p, "add", request)

\* AddTaskTool.handle: payload.get("title") is None or "" (both falsy) or
\* blank: failure; else storage.add_task with the stripped strings
AddTaskTool(p, payload, id) ==
    LET request == Request("addtask", payload)
        title == payload.title
    IN  IF Falsy(title) \/ strip(title) = <<>>
        THEN /\ Respond(p, Failure(request, "Payload must include a non-empty 'title'."))
             /\ StoreUntouched
        ELSE \/ /\ AddTask(p, strip(title), strip(PayloadGet(payload, "description", <<>>)),
                           payload.due_at,
                           payload.remind_at, id)
                /\ Respond(p, Success(request, ret'[p]))
             \/ StoreRaises(p, "add", request)

\* ListTasksTool.handle
ListTasksTool(p, payload) ==
    LET request == Request("listtasks", payload)
        status_filter == IF payload.filter = NoFilter THEN "pending" ELSE payload.filter
    IN  IF ~Hashable(status_filter)
        THEN /\ Respond(p, Raised(request, "TypeError"))
             /\ StoreUntouched
        ELSE IF status_filter \notin VALID_FILTERS
        THEN /\ Respond(p, Failure(request, "Invalid filter"))
             /\ StoreUntouched
        ELSE \/ /\ ListTasks(p, status_filter)
                /\ Respond(p, Success(request, ret'[p]))
             \/ StoreRaises(p, "list", request)

\* CompleteTaskTool.handle that takes whatever the store returns for a task
CompleteTaskToolUnchecked(p, payload) ==
    LET request == Request("completetask", payload)
        task_id == payload.task_id
    IN  IF Falsy(task_id)
        THEN /\ Respond(p, Failure(request, "Payload must include 'task_id'."))
             /\ StoreUntouched
        ELSE \/ /\ CompleteTask(p, task_id)
                /\ Respond(p, Success(request, ret'[p]))
             \/ StoreRaises(p, "complete", request)

\* CompleteTaskTool.handle
CompleteTaskTool(p, payload) ==
    LET request == Request("completetask", payload)
        task_id == payload.task_id
    IN  IF Falsy(task_id)
        THEN /\ Respond(p, Failure(request, "Payload must include 'task_id'."))
             /\ StoreUntouched
        ELSE \/ /\ CompleteTask(p, task_id)
                /\ Respond(p, IF ret'[p] = <<>>
                              THEN Failure(request, "Task not found.")
                              ELSE Success(request, ret'[p]))
             \/ StoreRaises(p, "complete", request)

\* DeleteTaskTool.handle
DeleteTaskTool(p, payload) ==
    LET request == Request("deletetask", payload)
        task_id == payload.task_id
    IN  IF Falsy(task_id)
        THEN /\ Respond(p, Failure(request, "Payload must include 'task_id'."))
             /\ StoreUntouched
        ELSE \/ /\ DeleteTask(p, task_id)
                /\ Respond(p, IF ret'[p] = <<>>
                              THEN Failure(request, "Task not found.")
                              ELSE Success(request, ret'[p]))
             \/ StoreRaises(p, "delete", request)

\* CheckRemindersTool.handle
CheckRemindersTool(p) ==
    LET request == Request("checkreminders", EmptyPayload)
    IN  \/ /\ GetDueReminders(p)
           /\ Respond(p, Success(request, ret'[p]))
        \/ StoreRaises(p, "due", request)

\* ------------------------------------------- one request on a given file
ToolRecords ==
    { [NewTask(Id3, <<"A">>, <<>>, NoTime, NoTime, 1) EXCEPT !.status = status] :
          status \in {"pending", "completed"} }

ToolFiles == FilesOf(ToolRecords) \cup {Undecodable}

\* titles: none, empty, blank, plain, padded, with a space inside
ToolTitles ==
    {None, <<>>, <<Space>>, <<"\t", Space>>, <<"A">>, <<Space, "A", "\n">>,
     <<"A", Space, "B">>}

\* ids: none, empty, blank, those of the records, their common prefix, one
\* that no record has
ToolIds ==
    {None, <<>>, <<Space>>, Prefix(Id3, MinPrefixLen)}
    \cup { IdAt(i) : i \in 1..(MaxStore + 1) }

\* filters: none, the valid ones, others, one that is no string
ToolFilters == {NoFilter, ArrayFilter, "", "done"} \cup VALID_FILTERS

InitTool == InitOn(ToolFiles, {1}, "idle")

\* p has made no request yet
FirstRequest(p) == resp[p].tool = "none"

\* one caller makes one request
NextTool ==
    \/ \E p \in SeqProcs, title \in ToolTitles, description \in {None, <<Space>>} :
          /\ FirstRequest(p)
          /\ AddTaskTool(p, [EmptyPayload EXCEPT !.title = title,
                                                 !.description = description],
                         IdAt(MaxStore + 1))
          /\ UNCHANGED <<calls, poller, notifier, cli>>
    \/ \E p \in SeqProcs, status_filter \in ToolFilters :
          /\ FirstRequest(p)
          /\ ListTasksTool(p, [EmptyPayload EXCEPT !.filter = status_filter])
          /\ UNCHANGED <<calls, poller, notifier, cli>>
    \/ \E p \in SeqProcs, task_id \in ToolIds :
          /\ FirstRequest(p)
          /\ CompleteTaskTool(p, [EmptyPayload EXCEPT !.task_id = task_id])
          /\ UNCHANGED <<calls, poller, notifier, cli>>
    \/ \E p \in SeqProcs, task_id \in ToolIds :
          /\ FirstRequest(p)
          /\ DeleteTaskTool(p, [EmptyPayload EXCEPT !.task_id = task_id])
          /\ UNCHANGED <<calls, poller, notifier, cli>>
    \/ \E p \in SeqProcs : Continue(p) /\ UNCHANGED <<calls, frontVars>>

SpecTool == InitTool /\ [][NextTool]_vars

\* ------------------------------------------------------------ the notifier
Surrogate == "U+D800"   \* a lone surrogate: UTF-8 has no encoding for it
Nul == "U+0000"         \* the NUL character: no process argument can hold it

NoExc == ""

\* task.get("title", "Untitled")
Untitled == <<"U", "n", "t", "i", "t", "l", "e", "d">>

\* sys.stdout.write(msg): UnicodeEncodeError when msg cannot be encoded
Encodable(s) == \A i \in 1..Len(s) : s[i] # Surrogate

\* subprocess.run(argv): ValueError("embedded null byte")
Launchable(s) == \A i \in 1..Len(s) : s[i] # Nul

\* how running notify-send ends: exit status 0, another exit status
\* (check=False), no such program (OSError), more than timeout=5 seconds
LaunchOutcomes == {"exit 0", "exit 1", "OSError", "TimeoutExpired"}

\* what the notifier has sent: the text written, the popup launched
TextEvent(task) == [channel |-> "text", id |-> task.id]
PopupEvent(task) == [channel |-> "popup", id |-> task.id]

\* notify-send was run for the task and ended with `outcome`
Launched(n, task, outcome) ==
    [n EXCEPT !.out = Append(@, PopupEvent(task)), !.launch = outcome]

\* notify(task) is entered
Invoke(n, task) == [n EXCEPT !.invoked = Append(@, task.id)]

\* terminal_notify
terminal_notify(n, task) ==
    LET title == GetField(task, "title", Untitled)
    IN  IF Encodable(title)
        THEN [n |-> [n EXCEPT !.out = Append(@, TextEvent(task))], exc |-> NoExc]
        ELSE [n |-> n, exc |-> "UnicodeEncodeError"]

\* _check_notify_send that asks shutil.which at every call
_check_notify_send_always(n, found) ==
    [n EXCEPT !.has_notify_send = IF found THEN "True" ELSE "False",
              !.probes = @ + 1]

\* _check_notify_send: shutil.which("notify-send") finds the program or not
_check_notify_send(n, found) ==
    IF n.has_notify_send = "None"
    THEN [n EXCEPT !.has_notify_send = IF found THEN "True" ELSE "False",
                   !.probes = @ + 1]
    ELSE n

\* title, then the description if there is one
Body(task) ==
    GetField(task, "title", Untitled) \o GetField(task, "description", <<>>)

\* desktop_notify without its try/except
desktop_notify_unguarded(n, task, found, outcome) ==
    LET c == _check_notify_send(n, found)
    IN  IF c.has_notify_send = "False" THEN [n |-> c, exc |-> NoExc]
        ELSE IF ~Launchable(Body(task)) THEN [n |-> c, exc |-> "ValueError"]
        ELSE IF outcome \in {"OSError", "TimeoutExpired"} THEN [n |-> c, exc |-> outcome]
        ELSE [n |-> Launched(c, task, outcome), exc |-> NoExc]

\* desktop_notify: nothing when notify-send is not there; else run it,
\* OSError and TimeoutExpired being caught
desktop_notify(n, task, found, outcome) ==
    LET c == _check_notify_send(n, found)
    IN  IF c.has_notify_send = "False" THEN [n |-> c, exc |-> NoExc]
        ELSE IF ~Launchable(Body(task)) THEN [n |-> c, exc |-> "ValueError"]
        ELSE [n |-> Launched(c, task, outcome), exc |-> NoExc]

\* ---------------------------------------------------- the reminder poller
PollInterval == 2     \* config.POLL_INTERVAL (DTR_POLL_INTERVAL), in clock units
MaxPollTime == 5      \* the clock of a run with the poller reads 1..MaxPollTime
MaxFrontCalls == 1    \* requests of the REPL in such a run

\* the loop is back at its top: _stop_event.wait(timeout) starts anew
AtLoopTop(pl, clock) ==
    [pl EXCEPT !.at = "waiting", !.waited = 0, !.since = clock, !.queue = <<>>]

\* an exception of the tick that ends the thread
CaughtEndsLoop(pl, clock) ==
    [pl EXCEPT !.at = "exited", !.queue = <<>>, !.failed = @ + 1]

\* except Exception: pass
Caught(pl, clock) == [AtLoopTop(pl, clock) EXCEPT !.failed = @ + 1]

\* time passes; the wait of a poller that waits gets longer
PollPass ==
    /\ now < MaxPollTime
    /\ now' = now + 1
    /\ poller' = IF poller.alive /\ poller.at = "waiting"
                 THEN [poller EXCEPT !.waited = @ + 1]
                 ELSE poller
    /\ UNCHANGED <<file, lock, procVars, histVars, fileHist, notifier, resp, cli, calls>>

\* a wait that returns False at once
PollWakeAtOnce ==
    /\ poller.alive /\ poller.at = "waiting"
    /\ ~poller.stop
    /\ poller' = [poller EXCEPT !.at = "woken"]
    /\ UNCHANGED <<file, lock, now, procVars, histVars, fileHist, notifier, resp, cli, calls>>

\* _stop_event.wait(timeout=POLL_INTERVAL) returns False: the time is up and
\* the event is not set
PollWake ==
    /\ poller.alive /\ poller.at = "waiting"
    /\ ~poller.stop
    /\ poller.waited >= PollInterval
    /\ poller' = [poller EXCEPT !.at = "woken"]
    /\ UNCHANGED <<file, lock, now, procVars, histVars, fileHist, notifier, resp, cli, calls>>

\* _stop_event.wait returns True: the event is set; the loop ends
PollExit ==
    /\ poller.alive /\ poller.at = "waiting"
    /\ poller.stop
    /\ poller' = [poller EXCEPT !.at = "exited"]
    /\ UNCHANGED <<file, lock, now, procVars, histVars, fileHist, notifier, resp, cli, calls>>

\* resp = self._invoke("checkreminders", {})
PollCall ==
    /\ poller.alive /\ poller.at = "woken"
    /\ CheckRemindersTool("bg")
    /\ poller' = [poller EXCEPT !.at = "calling", !.ticks = @ + 1,
                                !.returned = <<>>, !.called = <<>>]
    /\ UNCHANGED <<notifier, cli, calls>>

\* the _save of get_due_reminders
PollSave ==
    /\ poller.alive /\ poller.at = "calling"
    /\ Continue("bg")
    /\ UNCHANGED <<calls, frontVars>>

\* the call has returned: if resp.is_success() and resp.result["count"] > 0,
\* the tasks are to be notified; a call that raised ends the tick
PollResult ==
    /\ poller.alive /\ poller.at = "calling"
    /\ pc["bg"] \in {"idle", "raised"}
    /\ LET r == resp["bg"]
       IN  poller' =
             IF pc["bg"] = "raised" THEN Caught(poller, now)
             ELSE IF is_success(r) /\ Len(r.tasks) > 0
             THEN [poller EXCEPT !.at = "notifying", !.queue = r.tasks,
                                 !.returned = [i \in 1..Len(r.tasks) |-> r.tasks[i].id]]
             ELSE AtLoopTop(poller, now)
    /\ pc' = [pc EXCEPT !["bg"] = "idle"]
    /\ UNCHANGED <<file, lock, now, op, arg, local, ret, histVars, fileHist,
                   notifier, resp, cli, calls>>

\* for task in resp.result["tasks"]: self.notifier.notify(task), its
\* terminal_notify
NotifyText ==
    /\ poller.alive /\ poller.at = "notifying"
    /\ poller.queue # <<>>
    /\ LET task == Head(poller.queue)
           r == terminal_notify(Invoke(notifier, task), task)
           entered == [poller EXCEPT !.called = Append(@, task.id)]
       IN  /\ notifier' = r.n
           /\ poller' = IF r.exc = NoExc
                        THEN [entered EXCEPT !.at = "popup"]
                        ELSE Caught(entered, now)
    /\ UNCHANGED <<file, lock, now, procVars, histVars, fileHist, resp, cli, calls>>

\* notify(task), its desktop_notify; then the next task
NotifyPopup ==
    /\ poller.alive /\ poller.at = "popup"
    /\ \E found \in BOOLEAN, outcome \in LaunchOutcomes :
          LET r == desktop_notify(notifier, Head(poller.queue), found, outcome)
          IN  /\ notifier' = r.n
              /\ poller' = IF r.exc = NoExc
                           THEN [poller EXCEPT !.at = "notifying", !.queue = Tail(@)]
                           ELSE Caught(poller, now)
    /\ UNCHANGED <<file, lock, now, procVars, histVars, fileHist, resp, cli, calls>>

\* the for loop is through
TickEnd ==
    /\ poller.alive /\ poller.at = "notifying"
    /\ poller.queue = <<>>
    /\ poller' = AtLoopTop(poller, now)
    /\ UNCHANGED <<file, lock, now, procVars, histVars, fileHist, notifier, resp, cli, calls>>

\* run, finally: self._stop_event.set(), once _repl has returned
SetStop ==
    /\ ~poller.stop
    /\ pc["fg"] = "idle"
    /\ poller' = [poller EXCEPT !.stop = TRUE, !.stopped_at = now]
    /\ UNCHANGED <<file, lock, now, procVars, histVars, fileHist, notifier, resp, cli, calls>>

\* run has returned and main with it: the interpreter exits without joining
\* the thread, which is a daemon, wherever it is
ProcessExit ==
    /\ poller.stop
    /\ poller.alive /\ poller.at # "exited"
    /\ poller' = [poller EXCEPT !.alive = FALSE]
    /\ UNCHANGED <<file, lock, now, procVars, histVars, fileHist, notifier, resp, cli, calls>>

\* the add command of the REPL, while the REPL runs
FrontAdd ==
    /\ ~poller.stop
    /\ calls < MaxFrontCalls
    /\ AddTaskTool("fg", [EmptyPayload EXCEPT !.title = <<"A">>],
                   IdAt(MaxStore + Len(issued) + 1))
    /\ calls' = calls + 1
    /\ UNCHANGED <<poller, notifier, cli>>

FrontSave ==
    /\ Continue("fg")
    /\ UNCHANGED <<calls, frontVars>>

\* tasks whose reminder is due from the start or later; titles that can be
\* written and launched, and titles that cannot
PollRecords ==
    { NewTask(Id3, <<c>>, <<>>, NoTime, 1, 1) : c \in {"A", Surrogate, Nul} }
    \cup { NewTask(Id3, <<"A">>, <<>>, NoTime, 1 + 2 * PollInterval, 1) }

PollFiles == FilesOf(PollRecords) \cup {Undecodable}

InitPoll == InitOn(PollFiles, {1}, "idle")

\* the poller thread of one InteractiveCLI.run, whose REPL ends at some time
NextPoll ==
    \/ PollPass
    \/ PollWake
    \/ PollExit
    \/ PollCall
    \/ PollSave
    \/ PollResult
    \/ NotifyText
    \/ NotifyPopup
    \/ TickEnd
    \/ SetStop
    \/ ProcessExit

SpecPoll == InitPoll /\ [][NextPoll]_vars

\* the same with a REPL that adds tasks
NextFront ==
    \/ NextPoll
    \/ FrontAdd
    \/ FrontSave

SpecFront == InitPoll /\ [][NextFront]_vars

\* ------------------------------------------------- the helpers of the REPL
\* tokens, as shlex.split hands them over, are strings of characters
DescFlag == <<"-", "-", "d", "e", "s", "c">>
DueFlag == <<"-", "-", "d", "u", "e">>
RemindFlag == <<"-", "-", "r", "e", "m", "i", "n", "d">>
FilterFlag == <<"-", "-", "f", "i", "l", "t", "e", "r">>

\* the flags _handle_add and _handle_list pass
AddFlags == {DescFlag, DueFlag, RemindFlag}
ListFlags == {FilterFlag}

\* " ".join(parts)
RECURSIVE Join(_)
Join(parts) ==
    IF parts = <<>> THEN <<>>
    ELSE IF Len(parts) = 1 THEN parts[1]
    ELSE parts[1] \o <<Space>> \o Join(Tail(parts))

\* opts[token] = value
Put(opts, token, value) ==
    [k \in (DOMAIN opts) \cup {token} |-> IF k = token THEN value ELSE opts[k]]

\* the while loop of _parse_args_with_flags from index i on
RECURSIVE ParseFrom(_, _, _, _, _)
ParseFrom(args, flags, i, title_parts, opts) ==
    IF i > Len(args)
    THEN [title |-> Join(title_parts), opts |-> opts]
    ELSE IF args[i] \in flags
         THEN IF i + 1 <= Len(args)
              THEN ParseFrom(args, flags, i + 2, title_parts,
                             Put(opts, args[i], args[i + 1]))
              ELSE ParseFrom(args, flags, i + 1, title_parts, opts)
         ELSE ParseFrom(args, flags, i + 1, Append(title_parts, args[i]), opts)

_parse_args_with_flags(args, flags) == ParseFrom(args, flags, 1, <<>>, <<>>)

Contains(s, c) == \E i \in 1..Len(s) : s[i] = c

\* value.split(" ", 1) of a value that holds a space
SplitOnce(value) ==
    LET k == CHOOSE i \in 1..Len(value) :
                 value[i] = Space /\ \A j \in 1..(i - 1) : value[j] # Space
    IN  <<SubSeq(value, 1, k - 1), SubSeq(value, k + 1, Len(value))>>

Seconds == <<":", "0", "0">>
Midnight == <<"T", "0", "0", ":", "0", "0", ":", "0", "0">>

\* _normalize_datetime without the test for a "T"
_normalize_datetime_no_iso_test(value) ==
    LET v == strip(value)
    IN  IF Contains(v, Space)
        THEN LET parts == SplitOnce(v)
                 time_part == IF Len(parts[2]) = 5 THEN parts[2] \o Seconds
                              ELSE parts[2]
             IN  parts[1] \o <<"T">> \o time_part
        ELSE v \o Midnight

_normalize_datetime(value) ==
    LET v == strip(value)
    IN  IF Contains(v, "T") THEN v
        ELSE IF Contains(v, Space)
        THEN LET parts == SplitOnce(v)
                 time_part == IF Len(parts[2]) = 5 THEN parts[2] \o Seconds
                              ELSE parts[2]
             IN  parts[1] \o <<"T">> \o time_part
        ELSE v \o Midnight

\* all sequences of at most n elements of S
SeqsUpTo(S, n) == UNION { [1..k -> S] : k \in 0..n }

\* ---- _parse_args_with_flags on given tokens
MaxArgs == 4

ArgTokens == {<<"a">>, <<"b">>, DescFlag, FilterFlag}

ArgLists == SeqsUpTo(ArgTokens, MaxArgs)

InitParse ==
    InitWith({FileOf(<<>>)}, {1}, "idle",
             { [NoCli EXCEPT !.at = "args", !.args = args, !.flags = flags] :
                   args \in ArgLists, flags \in {AddFlags, ListFlags} })

\* title, opts = _parse_args_with_flags(args, flags)
ParseArgs ==
    /\ cli.at = "args"
    /\ LET r == _parse_args_with_flags(cli.args, cli.flags)
       IN  cli' = [cli EXCEPT !.at = "parsed", !.title = r.title, !.opts = r.opts]
    /\ UNCHANGED <<file, lock, now, procVars, histVars, fileHist, calls,
                   poller, notifier, resp>>

NextParse == ParseArgs

SpecParse == InitParse /\ [][NextParse]_vars

\* ---- _normalize_datetime on given values
MaxValueLen == 4

Date == <<"2", "0", "2", "6", "-", "0", "3", "-", "0", "1">>
HourMinute == <<"1", "4", ":", "3", "0">>

\* every short string over a space, a tab, a T, a digit and a colon, and the
\* values made of a date, a separator and a time, padded or not
DateValues ==
    SeqsUpTo({Space, "\t", "T", "1", ":"}, MaxValueLen)
    \cup { before \o date \o sep \o time \o after :
              before \in {<<>>, <<Space>>}, date \in {<<>>, Date},
              sep \in {<<>>, <<Space>>, <<Space, Space>>, <<"T">>},
              time \in {<<>>, HourMinute, HourMinute \o Seconds},
              after \in {<<>>, <<Space>>} }

InitNormalize ==
    InitWith({FileOf(<<>>)}, {1}, "idle",
             { [NoCli EXCEPT !.at = "value", !.value = value] : value \in DateValues })

\* _normalize_datetime(value)
Normalize ==
    /\ cli.at = "value"
    /\ cli' = [cli EXCEPT !.at = "once", !.once = _normalize_datetime(cli.value)]
    /\ UNCHANGED <<file, lock, now, procVars, histVars, fileHist, calls,
                   poller, notifier, resp>>

\* _normalize_datetime of what it returned
NormalizeAgain ==
    /\ cli.at = "once"
    /\ cli' = [cli EXCEPT !.at = "twice", !.twice = _normalize_datetime(cli.once)]
    /\ UNCHANGED <<file, lock, now, procVars, histVars, fileHist, calls,
                   poller, notifier, resp>>

NextNormalize ==
    \/ Normalize
    \/ NormalizeAgain

SpecNormalize == InitNormalize /\ [][NextNormalize]_vars

\* ---- InteractiveCLI.run: the REPL, its exits and the thread it starts
MaxLines == 2    \* lines the REPL reads in one run

Quote == "\""

\* shlex.split(line) from index i on: white space separates tokens, a double
\* quote opens and closes a part that may hold white space; `started` says a
\* token is under way; a quote left open is ValueError("No closing quotation")
RECURSIVE ShlexFrom(_, _, _, _, _, _)
ShlexFrom(line, i, token, started, quoted, tokens) ==
    IF i > Len(line)
    THEN IF quoted THEN [error |-> TRUE, tokens |-> <<>>]
         ELSE [error |-> FALSE,
               tokens |-> IF started THEN Append(tokens, token) ELSE tokens]
    ELSE LET c == line[i]
         IN  IF quoted
             THEN IF c = Quote
                  THEN ShlexFrom(line, i + 1, token, TRUE, FALSE, tokens)
                  ELSE ShlexFrom(line, i + 1, Append(token, c), TRUE, TRUE, tokens)
             ELSE IF c = Quote
                  THEN ShlexFrom(line, i + 1, token, TRUE, TRUE, tokens)
             ELSE IF c \in Whitespace
                  THEN IF started
                       THEN ShlexFrom(line, i + 1, <<>>, FALSE, FALSE,
                                      Append(tokens, token))
                       ELSE ShlexFrom(line, i + 1, <<>>, FALSE, FALSE, tokens)
             ELSE ShlexFrom(line, i + 1, Append(token, c), TRUE, FALSE, tokens)

shlex_split(line) == ShlexFrom(line, 1, <<>>, FALSE, FALSE, <<>>)

\* str.lower on the letters the lines hold
LowerChar(c) ==
    CASE c = "Q" -> "q" [] c = "U" -> "u" [] c = "I" -> "i" [] c = "T" -> "t"
      [] OTHER -> c

lower(s) == [i \in 1..Len(s) |-> LowerChar(s[i])]

QuitCommand == <<"q", "u", "i", "t">>
ExitCommand == <<"e", "x", "i", "t">>
HelpCommand == <<"h", "e", "l", "p">>
AddCommand == <<"a", "d", "d">>
CompleteCommand == <<"c", "o", "m", "p", "l", "e", "t", "e">>
DeleteCommand == <<"d", "e", "l", "e", "t", "e">>

\* input() at the end of standard input raises EOFError: no line
Eof == <<"EOFError">>

\* lines that end the REPL
EndingLines ==
    {Eof, QuitCommand, <<"Q", "U", "I", "T">>, <<Space>> \o ExitCommand}

\* an empty and a blank line, an unknown command, a quote left open, commands
\* without their argument, an add whose only token is a flag
IdleLines ==
    {<<>>, <<Space, "\t">>, <<"x">>, <<"a", "d", "d", "x">>, <<Quote, "x">>,
     AddCommand, CompleteCommand, DeleteCommand,
     AddCommand \o <<Space>> \o DescFlag}

\* commands that go through: help, an add with a title, a complete and a
\* delete with an id
WorkingLines ==
    {HelpCommand, AddCommand \o <<Space, "A">>,
     CompleteCommand \o <<Space>> \o IdAt(MaxStore + 1),
     DeleteCommand \o <<Space, "z", "z", "z", "z">>,
     AddCommand \o <<Space, "A", Space>> \o DescFlag \o <<Space, Quote, "b", Space, "c", Quote>>}

ReplLines == EndingLines \cup IdleLines \cup WorkingLines

RunFiles == {FileOf(<<>>), Undecodable}

\* run has been called: nothing printed yet, no thread started
InitRun ==
    /\ file \in RunFiles
    /\ lock = NoProc
    /\ now = 1
    /\ pc = [p \in Procs |-> "idle"]
    /\ op = [p \in Procs |-> "none"]
    /\ arg = [p \in Procs |-> NoArg]
    /\ local = [p \in Procs |-> <<>>]
    /\ ret = [p \in Procs |-> <<>>]
    /\ calls = 0
    /\ issued = <<>>
    /\ completedDone = {}
    /\ deleted = {}
    /\ delivered = [id \in UuidPool |-> 0]
    /\ everNotified = {}
    /\ everCompleted = {}
    /\ committed = Load(file)
    /\ poller = [PollerInit EXCEPT !.alive = FALSE]
    /\ notifier = NotifierInit
    /\ resp = [p \in Procs |-> NoResponse]
    /\ cli = [NoCli EXCEPT !.at = "banner"]

\* the main thread moves to `where`; nothing else changes
RunGoes(where) ==
    /\ cli' = [cli EXCEPT !.at = where]
    /\ UNCHANGED <<file, lock, now, procVars, histVars, fileHist, calls,
                   poller, notifier, resp>>

\* run: print(banner)
RunBanner == cli.at = "banner" /\ RunGoes("start")

\* run: bg_thread = threading.Thread(..., daemon=True); bg_thread.start()
\* launches the thread and then waits until it has started
RunStartThread ==
    /\ cli.at = "start"
    /\ cli' = [cli EXCEPT !.at = "started"]
    /\ poller' = [poller EXCEPT !.alive = TRUE]
    /\ UNCHANGED <<file, lock, now, procVars, histVars, fileHist, calls,
                   notifier, resp>>

\* start() has returned; try: self._repl()
RunEnterRepl == cli.at = "started" /\ RunGoes("input")

\* the add command with a title: _handle_add builds the payload and invokes
\* the tool
HandleAdd(parsed) ==
    LET desc == IF DescFlag \in DOMAIN parsed.opts /\ parsed.opts[DescFlag] # <<>>
                THEN parsed.opts[DescFlag] ELSE None
    IN  AddTaskTool("fg", [EmptyPayload EXCEPT !.title = parsed.title,
                                               !.description = desc],
                    IdAt(MaxStore + Len(issued) + 1))

\* one turn of the while loop of _repl: the stop test, input(), strip,
\* shlex.split, the dispatch on tokens[0].lower(), up to the tool call of the
\* handler if it makes one; no line is a list command
ReadLine ==
    /\ cli.at = "input"
    /\ ~poller.stop
    /\ calls < MaxLines
    /\ calls' = calls + 1
    /\ \E line \in ReplLines :
          LET stripped == strip(line)
              split == shlex_split(stripped)
              command == lower(split.tokens[1])
              parsed == _parse_args_with_flags(Tail(split.tokens), AddFlags)
              stays == /\ cli' = [cli EXCEPT !.line = line]
                       /\ UNCHANGED <<file, lock, now, procVars, histVars, fileHist, resp>>
              breaks == /\ cli' = [cli EXCEPT !.line = line, !.at = "finally"]
                        /\ UNCHANGED <<file, lock, now, procVars, histVars, fileHist, resp>>
          IN  IF line = Eof THEN breaks
              ELSE IF stripped = <<>> THEN stays
              ELSE IF split.error THEN stays
              ELSE IF command \in {QuitCommand, ExitCommand} THEN breaks
              ELSE IF command = HelpCommand THEN stays
              ELSE IF command = AddCommand
              THEN IF parsed.title = <<>> THEN stays
                   ELSE /\ HandleAdd(parsed)
                        /\ cli' = [cli EXCEPT !.line = line, !.at = "handler",
                                              !.args = Tail(split.tokens),
                                              !.title = parsed.title,
                                              !.opts = parsed.opts]
              ELSE IF command = CompleteCommand
              THEN IF Len(split.tokens) = 1 THEN stays
                   ELSE /\ CompleteTaskTool("fg", [EmptyPayload EXCEPT
                                                      !.task_id = split.tokens[2]])
                        /\ cli' = [cli EXCEPT !.line = line, !.at = "handler",
                                              !.args = Tail(split.tokens)]
              ELSE IF command = DeleteCommand
              THEN IF Len(split.tokens) = 1 THEN stays
                   ELSE /\ DeleteTaskTool("fg", [EmptyPayload EXCEPT
                                                    !.task_id = split.tokens[2]])
                        /\ cli' = [cli EXCEPT !.line = line, !.at = "handler",
                                              !.args = Tail(split.tokens)]
              ELSE stays      \* Unknown command
    /\ UNCHANGED <<poller, notifier>>

\* the _save of the handler's store call
HandlerSave ==
    /\ cli.at = "handler"
    /\ Continue("fg")
    /\ UNCHANGED <<calls, frontVars>>

\* the tool has answered (the router turns an exception of the store into a
\* failure): the handler prints and returns to the loop
HandlerReturn ==
    /\ cli.at = "handler"
    /\ pc["fg"] \in {"idle", "raised"}
    /\ pc' = [pc EXCEPT !["fg"] = "idle"]
    /\ cli' = [cli EXCEPT !.at = "input"]
    /\ UNCHANGED <<file, lock, now, op, arg, local, ret, histVars, fileHist, calls,
                   poller, notifier, resp>>

\* KeyboardInterrupt is raised in the main thread, wherever run is once its
\* thread is launched.  Before the try statement (start() is still waiting
\* for the thread) it leaves run; in _repl it is caught, and a _save under
\* way is left by its with block, which unlocks and closes the file with
\* what json.dump had written; in the except clause it passes through
\* finally; in finally, before set() has run, and after it, it leaves run.
Interrupt ==
    /\ cli.at \in {"started", "input", "handler", "except", "finally", "goodbye"}
    /\ cli' = [cli EXCEPT
                 !.at = CASE cli.at \in {"input", "handler"} -> "except"
                          [] cli.at = "except" -> "finally"
                          [] OTHER -> "raised",
                 !.pending = (cli.at = "except")]
    /\ IF cli.at = "handler"
       THEN /\ pc' = [pc EXCEPT !["fg"] = "idle"]
            /\ local' = [local EXCEPT !["fg"] = <<>>]
            /\ lock' = IF lock = "fg" THEN NoProc ELSE lock
            /\ file' \in CASE pc["fg"] = "locked" -> {file, Flushed(file, local["fg"])}
                           [] pc["fg"] = "unlocked" -> {Flushed(file, local["fg"])}
                           [] OTHER -> {file}
            /\ FileSeen
            /\ UNCHANGED <<op, arg, ret>>
       ELSE UNCHANGED <<file, lock, procVars, fileHist>>
    /\ UNCHANGED <<now, histVars, calls, poller, notifier, resp>>

\* except KeyboardInterrupt: print()
RunExcept == cli.at = "except" /\ RunGoes("finally")

\* finally: self._stop_event.set()
RunSetStop ==
    /\ cli.at = "finally"
    /\ cli' = [cli EXCEPT !.at = "goodbye"]
    /\ poller' = [poller EXCEPT !.stop = TRUE, !.stopped_at = now]
    /\ UNCHANGED <<file, lock, now, procVars, histVars, fileHist, calls,
                   notifier, resp>>

\* finally: print("Goodbye!"); run returns, or the exception that passed
\* through finally goes on
RunGoodbye ==
    /\ cli.at = "goodbye"
    /\ RunGoes(IF cli.pending THEN "raised" ELSE "returned")

\* the thread of run and its REPL; the thread is seen only to start and to
\* end on the stop signal
NextRun ==
    \/ RunBanner
    \/ RunStartThread
    \/ RunEnterRepl
    \/ ReadLine
    \/ HandlerSave
    \/ HandlerReturn
    \/ Interrupt
    \/ RunExcept
    \/ RunSetStop
    \/ RunGoodbye
    \/ PollExit

SpecRun == InitRun /\ [][NextRun]_vars

\* ================================================================= claims
\* every add_task drew an id no earlier add_task had drawn: an id then names
\* one task
NoCollision == \A i, j \in 1..Len(issued) : i # j => issued[i] # issued[j]

AllIdle == \A p \in Procs : pc[p] = "idle"

InCall(p) == pc[p] \in {"loaded", "opened", "locked", "unlocked"}

\* p starts a call in this step (every call starts with its _load)
Loads(p) == pc[p] = "idle" /\ <<pc[p], op[p], arg[p], ret[p]>>' # <<pc[p], op[p], arg[p], ret[p]>>

\* C1: at-most-once delivery under concurrency: over any interleaving of the
\* callers, each task is returned by at most one get_due_reminders call.
AtMostOnceDelivery ==
    NoCollision => \A id \in DOMAIN delivered : delivered[id] <= 1

\* C2: no lost updates: once all concurrent calls have returned, the file
\* holds every task an add_task call created (and no delete_task removed).
NoLostAdds ==
    (AllIdle /\ NoCollision) =>
        \A i \in 1..Len(issued) :
            issued[i] \notin deleted => issued[i] \in Ids(Load(file))

\* C3: every read-modify-write call is one critical section: while a caller
\* is between its load and the end of its save, no step of another caller
\* writes the file.
CriticalSection ==
    [][\A p \in Procs : (InCall(p) /\ pc'[p] = pc[p]) => file' = file]_vars

\* C4: fire once in sequence: after a get_due_reminders call made at clock c,
\* every pending task with remind_at <= c has been returned by exactly one
\* call (that one or an earlier one) and is marked notified; no task is
\* returned by two calls; no returned task has remind_at later than the
\* clock of the call that returned it.
FireOnceInSequence ==
    NoCollision =>
        /\ \A id \in DOMAIN delivered : delivered[id] <= 1
        /\ \A p \in SeqProcs :
              (op[p] = "due" /\ pc[p] = "idle") =>
                  /\ \A i \in 1..Len(Load(file)) :
                        LET t == Load(file)[i]
                        IN  (/\ t.status = "pending"
                             /\ t.remind_at # NoTime
                             /\ t.remind_at <= arg[p].clock)
                            => (delivered[t.id] = 1 /\ t.notified)
                  /\ \A i \in 1..Len(ret[p]) :
                        /\ ret[p][i].remind_at # NoTime
                        /\ ret[p][i].remind_at <= arg[p].clock

\* C4, witness: a task that became due when the clock reached 2 has been
\* returned once, and the get_due_reminders call made after that returned
\* nothing.
FireOnceWitness ==
    /\ NoCollision
    /\ \E p \in SeqProcs :
          /\ op[p] = "due" /\ pc[p] = "idle" /\ ret[p] = <<>>
          /\ \E i \in 1..Len(Load(file)) :
                LET t == Load(file)[i]
                IN  /\ t.status = "pending"
                    /\ t.remind_at = 2
                    /\ delivered[t.id] = 1

\* C5: notified is monotonic: a task the file has held with notified = true
\* has notified = true in every later state of the file that holds it.
NotifiedMonotonic ==
    NoCollision =>
        \A i \in 1..Len(Load(file)) :
            Load(file)[i].id \in everNotified => Load(file)[i].notified

\* C6: status is monotonic: a task the file has held with status = completed
\* has status = completed in every later state of the file that holds it.
StatusMonotonic ==
    NoCollision =>
        \A i \in 1..Len(Load(file)) :
            Load(file)[i].id \in everCompleted => Load(file)[i].status = "completed"

\* C7: a completed task is never reported: a get_due_reminders call that
\* starts after complete_task returned a task does not return that task,
\* and no get_due_reminders call returns a record with status = completed.
CompletedNeverReported ==
    [][\A p \in Procs :
          (NoCollision /\ Loads(p) /\ op'[p] = "due") =>
              /\ Ids(ret'[p]) \cap completedDone = {}
              /\ \A i \in 1..Len(ret'[p]) : ret'[p][i].status # "completed"]_vars

\* C8: id uniqueness: the ids of the records in the file are pairwise
\* distinct after every sequence of add_task calls.
IdsUnique ==
    \A i, j \in 1..Len(Load(file)) :
        i # j => Load(file)[i].id # Load(file)[j].id

\* C9: read atomicity: every _load observes the collection the file last
\* held in full (that of a finished save, or the initial empty collection),
\* never the empty or partial text of a save in progress.
ReadAtomicity ==
    [][\A p \in Procs : Loads(p) => Load(file) = committed]_vars

\* C10: identifier resolution of get_task: a record whose id is exactly s is
\* returned if there is one; otherwise, if len(s) >= 4 and exactly one
\* record's id starts with s, that record; otherwise None.
GetResolution ==
    \A p \in SeqProcs :
        op[p] = "get" =>
            LET tasks == Load(file)
                s == arg[p].id
                exact == { i \in 1..Len(tasks) : tasks[i].id = s }
                starts == { i \in 1..Len(tasks) : StartsWith(tasks[i].id, s) }
            IN  /\ exact # {} =>
                    /\ Len(ret[p]) = 1
                    /\ ret[p][1].id = s
                    /\ \E i \in exact : ret[p][1] = tasks[i]
                /\ (exact = {} /\ Len(s) >= 4 /\ Cardinality(starts) = 1) =>
                    \A i \in starts : ret[p] = <<tasks[i]>>
                /\ (exact = {} /\ (Len(s) < 4 \/ Cardinality(starts) # 1)) =>
                    ret[p] = <<>>

\* C10, witness: with two records whose ids share the first four characters
\* in the file, a 5-character argument that is no id returned the one record
\* it is a prefix of.
GetResolutionWitness ==
    \E p \in SeqProcs :
        /\ op[p] = "get"
        /\ Len(arg[p].id) = 5
        /\ Len(ret[p]) = 1
        /\ ret[p][1].id # arg[p].id
        /\ Cardinality({ i \in 1..Len(Load(file)) :
                            StartsWith(Load(file)[i].id, Prefix(arg[p].id, 4)) }) >= 2

\* C11: update_task, complete_task and delete_task resolve their argument as
\* get_task does: they return None exactly when get_task on the same file
\* content and the same argument returns None, and otherwise the record they
\* replace or remove is the record get_task returns.
FindAsGet ==
    \A p \in SeqProcs :
        op[p] \in {"update", "complete", "delete"} =>
            LET tasks == Load(file)
                got == get_task(tasks, arg[p].id)
            IN  /\ (pc[p] = "idle" /\ ret[p] = <<>>) => got = <<>>
                /\ pc[p] = "loaded" =>
                      /\ got # <<>>
                      /\ Len(ret[p]) = 1
                      /\ op[p] = "delete" =>
                            /\ ret[p] = got
                            /\ \E i \in 1..Len(tasks) :
                                  /\ tasks[i] = got[1]
                                  /\ local[p] = SubSeq(tasks, 1, i - 1)
                                                \o SubSeq(tasks, i + 1, Len(tasks))
                      /\ op[p] \in {"update", "complete"} =>
                            /\ ret[p][1].id = got[1].id
                            /\ \E i \in 1..Len(tasks) :
                                  /\ tasks[i] = got[1]
                                  /\ local[p] = [tasks EXCEPT ![i] = ret[p][1]]

\* C11, witness: with two records sharing their first four characters in the
\* file, delete_task called with a 5-character prefix is about to save the
\* file without the one record of that prefix.
FindAsGetWitness ==
    \E p \in SeqProcs :
        /\ op[p] = "delete"
        /\ pc[p] = "loaded"
        /\ Len(arg[p].id) = 5
        /\ Len(Load(file)) = 2
        /\ Len(local[p]) = 1
        /\ StartsWith(local[p][1].id, Prefix(arg[p].id, MinPrefixLen))

\* the selection of C12: pending, remind_at set and not later than the clock
\* (equal counts), not notified
Selected(t, clock) ==
    /\ t.status = "pending"
    /\ "remind_at" \in DOMAIN t
    /\ t.remind_at # NoTime
    /\ t.remind_at <= clock
    /\ ("notified" \in DOMAIN t => t.notified = FALSE)

\* u is t with notified = true and nothing else changed
NotifiedOnly(t, u) ==
    /\ DOMAIN u = DOMAIN t \cup {"notified"}
    /\ u.notified = TRUE
    /\ \A k \in DOMAIN t \ {"notified"} : u[k] = t[k]

\* C12: get_due_reminders called at clock c on a file returns exactly the
\* records that are pending with remind_at set, remind_at <= c and notified
\* false, in file order and with notified = true; the file it leaves has
\* notified = true on exactly those records and no other field and no other
\* record changed; when no record is selected it returns [] and the file is
\* untouched.
DueExact ==
    [][\A p \in SeqProcs :
          /\ (Loads(p) /\ op'[p] = "due") =>
                LET Sel(t) == Selected(t, now)
                    sel == SelectSeq(Load(file), Sel)
                IN  /\ Len(ret'[p]) = Len(sel)
                    /\ \A j \in 1..Len(sel) : NotifiedOnly(sel[j], ret'[p][j])
                    /\ sel = <<>> => (pc'[p] = "idle" /\ file' = file)
                    /\ sel # <<>> => pc'[p] = "loaded"
          /\ (op[p] = "due" /\ pc[p] = "unlocked" /\ pc'[p] = "idle") =>
                /\ file'.ok
                /\ Len(file'.data) = Len(committed)
                /\ \A i \in 1..Len(committed) :
                      IF Selected(committed[i], arg[p].clock)
                      THEN NotifiedOnly(committed[i], file'.data[i])
                      ELSE file'.data[i] = committed[i]]_vars

\* C12, witness: a call at clock c has returned and marked a record with
\* remind_at = c, and has left alone a pending record with a later remind_at
\* in the same file.
DueExactWitness ==
    \E p \in SeqProcs :
        /\ op[p] = "due" /\ pc[p] = "idle"
        /\ \E j \in 1..Len(ret[p]) : ret[p][j].remind_at = arg[p].clock
        /\ \E i \in 1..Len(Load(file)) :
              LET t == Load(file)[i]
              IN  /\ Selected(t, arg[p].clock + 1)
                  /\ ~Selected(t, arg[p].clock)
        /\ \E i \in 1..Len(Load(file)) :
              /\ Load(file)[i].id \in Ids(ret[p])
              /\ Load(file)[i].notified

\* C13: list_tasks returns, in file order, with "pending" exactly the records
\* of status pending, with "completed" exactly those of status completed,
\* with "overdue" exactly those that are pending with due_at set and due_at
\* strictly before the clock, and with "all" every record.
ListExact ==
    \A p \in SeqProcs :
        op[p] = "list" =>
            LET Pending(t) == t.status = "pending"
                Completed(t) == t.status = "completed"
                Overdue(t) == /\ t.status = "pending"
                              /\ "due_at" \in DOMAIN t
                              /\ t.due_at # NoTime
                              /\ t.due_at < arg[p].clock
            IN  /\ arg[p].filter = "all" => ret[p] = Load(file)
                /\ arg[p].filter = "pending" => ret[p] = SelectSeq(Load(file), Pending)
                /\ arg[p].filter = "completed" =>
                      ret[p] = SelectSeq(Load(file), Completed)
                /\ arg[p].filter = "overdue" => ret[p] = SelectSeq(Load(file), Overdue)

\* C13, witness: list_tasks("overdue") has returned the one pending record
\* with a past due_at of a file that also holds a pending record whose
\* due_at equals the clock.
ListExactWitness ==
    \E p \in SeqProcs :
        /\ op[p] = "list" /\ arg[p].filter = "overdue"
        /\ Len(ret[p]) = 1
        /\ ret[p][1].due_at < arg[p].clock
        /\ \E i \in 1..Len(Load(file)) :
              /\ Load(file)[i].status = "pending"
              /\ "due_at" \in DOMAIN Load(file)[i]
              /\ Load(file)[i].due_at = arg[p].clock

\* the place of a record in the order of addition: the records the file
\* starts with in file order, then the added ones in the order of the calls
Rank(id) == CHOOSE i \in 1..Len(Digits) : IdAt(i) = id

InAddOrder(tasks) ==
    \A i, j \in 1..Len(tasks) : i < j => Rank(tasks[i].id) < Rank(tasks[j].id)

\* C14: storage order is append order: the records of the file are always
\* in the order in which they were added, whatever add_task, complete_task,
\* delete_task and get_due_reminders calls were made; list_tasks("all")
\* returns the file's records in that order and every filtered list is in
\* that order and made of records of the file.
OrderKept ==
    /\ InAddOrder(Load(file))
    /\ \A p \in SeqProcs :
          (op[p] = "list" /\ pc[p] = "idle") =>
              /\ InAddOrder(ret[p])
              /\ \A j \in 1..Len(ret[p]) :
                    \E i \in 1..Len(Load(file)) : ret[p][j] = Load(file)[i]
              /\ arg[p].filter = "all" => ret[p] = Load(file)
    /\ \A p \in SeqProcs :
          (op[p] = "add" /\ pc[p] = "idle" /\ file.ok) =>
              Load(file)[Len(Load(file))] = ret[p][1]

\* C14, witness: after an add_task and the delete_task of the first record
\* of the file, list_tasks("pending") has returned two records, the added
\* one last.
OrderKeptWitness ==
    \E p \in SeqProcs :
        /\ op[p] = "list" /\ arg[p].filter = "pending" /\ pc[p] = "idle"
        /\ IdAt(1) \in deleted
        /\ Len(ret[p]) = 2
        /\ ret[p][2].id = IdAt(MaxStore + 1)

\* C15: delete semantics for one caller: a delete_task that finds a record
\* returns it and leaves the file as it was with exactly that one record
\* removed; a get_task of the returned record's id made next returns None.
DeleteSemantics ==
    [][\A p \in SeqProcs :
          /\ (op[p] = "delete" /\ pc[p] = "unlocked" /\ pc'[p] = "idle") =>
                /\ file'.ok
                /\ Len(file'.data) = Len(committed) - 1
                /\ \E i \in 1..Len(committed) :
                      /\ committed[i] = ret[p][1]
                      /\ file'.data = SubSeq(committed, 1, i - 1)
                                      \o SubSeq(committed, i + 1, Len(committed))
          /\ (/\ op[p] = "delete" /\ pc[p] = "idle" /\ ret[p] # <<>>
              /\ Loads(p) /\ op'[p] = "get" /\ arg'[p].id = ret[p][1].id) =>
                ret'[p] = <<>>]_vars

\* C16: round trip: a get_task of the id add_task returned, made next,
\* returns a record equal to the one add_task returned, with the title given,
\* status pending and notified false.
RoundTrip ==
    [][\A p \in SeqProcs :
          (/\ op[p] = "add" /\ pc[p] = "idle"
           /\ Loads(p) /\ op'[p] = "get" /\ arg'[p].id = ret[p][1].id) =>
              /\ ret'[p] = ret[p]
              /\ ret'[p][1].title \in Titles
              /\ ret'[p][1].status = "pending"
              /\ ret'[p][1].notified = FALSE]_vars

\* C17: persistence across instances: when the operations of the instances
\* follow one another, an operation of any instance sees every write made
\* before it through any instance: list_tasks("all") returns every record
\* added and not deleted, none that was deleted, and with status completed
\* those that complete_task returned.
SeenAcrossInstances ==
    [][\A p \in Procs :
          (Loads(p) /\ op'[p] = "list") =>
              /\ \A k \in 1..Len(issued) :
                    issued[k] \in Ids(ret'[p]) <=> issued[k] \notin deleted
              /\ Ids(ret'[p]) \cap deleted = {}
              /\ \A i \in 1..Len(ret'[p]) :
                    ret'[p][i].id \in completedDone =>
                        ret'[p][i].status = "completed"]_vars

\* C17, witness: one instance has added a task and the other instance,
\* constructed on the same path, has listed exactly that task.
SeenAcrossInstancesWitness ==
    \E p, q \in Procs :
        /\ p # q
        /\ op[p] = "add" /\ pc[p] = "idle"
        /\ op[q] = "list" /\ pc[q] = "idle"
        /\ Len(issued) = 1
        /\ ret[q] = ret[p]

\* s resolves to no record of tasks: no id equals it, and it is shorter than
\* 4 characters, or the prefix of no id, or the prefix of several
Unresolved(tasks, s) ==
    /\ \A i \in 1..Len(tasks) : tasks[i].id # s
    /\ \/ Len(s) < 4
       \/ Cardinality({ i \in 1..Len(tasks) : StartsWith(tasks[i].id, s) }) # 1

\* C18: not-found is a value: get_task, update_task, complete_task and
\* delete_task called with an argument that resolves to no record return
\* None, the call ending there, and leave the file as it is.
NotFoundIsValue ==
    [][\A p \in SeqProcs :
          (/\ Loads(p)
           /\ op'[p] \in {"get", "update", "complete", "delete"}
           /\ Unresolved(Load(file), arg'[p].id)) =>
              /\ ret'[p] = <<>>
              /\ pc'[p] = "idle"
              /\ file' = file]_vars

\* C18, witness: delete_task called with a 4-character prefix that two
\* records of the file share has returned None, and the file still holds
\* both records.
NotFoundIsValueWitness ==
    \E p \in SeqProcs :
        /\ op[p] = "delete" /\ pc[p] = "idle" /\ ret[p] = <<>>
        /\ Len(arg[p].id) = MinPrefixLen
        /\ Len(Load(file)) = 2
        /\ \A i \in 1..Len(Load(file)) :
              /\ StartsWith(Load(file)[i].id, arg[p].id)
              /\ Load(file)[i].id # arg[p].id

\* C19: a file that does not parse is read as the empty collection: no call
\* raises; get_task, complete_task and delete_task return None,
\* list_tasks and get_due_reminders return [], and the file is left as it
\* is; the first add_task leaves a file that parses and holds exactly the
\* record it returned.
BadFileIsEmpty ==
    [][\A p \in SeqProcs :
          /\ pc'[p] # "raised"
          /\ (Loads(p) /\ ~file.ok /\ op'[p] # "add") =>
                (ret'[p] = <<>> /\ pc'[p] = "idle" /\ file' = file)
          /\ (/\ op[p] = "add" /\ Len(issued) = 1
              /\ pc[p] = "unlocked" /\ pc'[p] = "idle") =>
                (file'.ok /\ file'.data = ret[p])]_vars

\* C20: first use is idempotent: a construction that finds a file leaves it
\* as it is; a construction that finds none leaves a file that parses; and
\* no step of a construction removes a record from the file, however the
\* constructions and the calls of the instances interleave.
FirstUseIdempotent ==
    [][\A p \in Procs :
          /\ (pc[p] = "new" /\ pc'[p] # "new" /\ file.kind # "absent") =>
                (file' = file /\ pc'[p] = "idle")
          /\ (op[p] = "init" /\ InCall(p) /\ pc'[p] # pc[p]) =>
                Ids(Load(file)) \subseteq Ids(Load(file'))
          /\ (op[p] = "init" /\ pc[p] = "unlocked" /\ pc'[p] = "idle") =>
                file'.ok]_vars

\* C30: delete is permanent under concurrency: once delete_task(id) has
\* returned the removed record, and no add_task issues that id again, no
\* later state of the backing file holds a record with that id, whatever
\* add_task, complete_task and get_due_reminders calls run in the other
\* caller.
DeletePermanent ==
    NoCollision => \A id \in deleted : id \notin Ids(Load(file))

\* p is answered in this step
Handled(p) == resp'[p] # resp[p]

\* the request of p is refused and the store is as it was
Rejected(p) ==
    /\ resp'[p].kind = "failure"
    /\ file' = file /\ lock' = lock
    /\ pc'[p] = "idle" /\ local'[p] = <<>>

\* no title, or a title of white space only
Blank(s) == s = None \/ \A i \in 1..Len(s) : s[i] \in Whitespace

\* at least one character, the first and the last no white space
Trimmed(s) ==
    /\ s # None /\ s # <<>>
    /\ s[1] \notin Whitespace /\ s[Len(s)] \notin Whitespace

\* C28: validation comes before the store: an add request whose title is
\* missing, empty or blank, a complete or delete request without task_id and
\* a list request whose filter is none of all, pending, completed, overdue
\* get a failure response and the backing file is left as it was; the record
\* an add request creates, as returned and as written to the file, has a
\* title that is not empty and has no white space at either end.
ValidationFirst ==
    [][\A p \in SeqProcs :
          /\ Handled(p) =>
                LET r == resp'[p]
                IN  /\ (r.tool = "addtask" /\ Blank(r.payload.title)) => Rejected(p)
                    /\ (r.tool \in {"completetask", "deletetask"}
                           /\ r.payload.task_id \in {None, <<>>}) => Rejected(p)
                    /\ (r.tool = "listtasks"
                           /\ r.payload.filter \notin VALID_FILTERS \cup {NoFilter}) =>
                          Rejected(p)
                    /\ (r.tool = "addtask" /\ r.kind = "success") =>
                          /\ Len(r.tasks) = 1 /\ Trimmed(r.tasks[1].title)
                          /\ Trimmed(local'[p][Len(local'[p])].title)
          /\ (op[p] = "add" /\ pc[p] = "unlocked" /\ pc'[p] = "idle") =>
                /\ file'.ok
                /\ Trimmed(file'.data[Len(file'.data)].title)]_vars

\* an add request with a blank title was refused on a file that holds records
ValidationFirstWitness ==
    \E p \in SeqProcs :
        /\ resp[p].tool = "addtask" /\ resp[p].kind = "failure"
        /\ resp[p].payload.title = <<"\t", Space>>
        /\ file.kind = "text" /\ file.ok /\ Len(file.data) = MaxStore
        /\ pc[p] = "idle" /\ op[p] = "none"

\* C29: the adapter turns not-found into failure: a complete or delete
\* request whose task_id resolves to no record of the file gets a failure
\* response, and one whose task_id resolves to a record gets a success
\* response that carries this record (with status completed after complete);
\* the response is never an exception.
NotFoundIsFailure ==
    [][\A p \in SeqProcs :
          (Handled(p) /\ resp'[p].tool \in {"completetask", "deletetask"}
             /\ resp'[p].payload.task_id \notin {None, <<>>}) =>
              LET r == resp'[p]
                  found == get_task(Load(file), r.payload.task_id)
              IN  /\ r.kind \in {"success", "failure"}
                  /\ found = <<>> => (r.kind = "failure" /\ file' = file)
                  /\ found # <<>> =>
                        /\ r.kind = "success"
                        /\ r.tasks =
                              IF r.tool = "completetask"
                              THEN <<UpdateFields(found[1], [status |-> "completed"])>>
                              ELSE found]_vars

\* a complete request whose task_id is a prefix of two ids was answered with
\* a failure
NotFoundIsFailureWitness ==
    \E p \in SeqProcs :
        /\ resp[p].tool = "completetask" /\ resp[p].kind = "failure"
        /\ resp[p].payload.task_id = Prefix(Id3, MinPrefixLen)
        /\ file.kind = "text" /\ file.ok /\ Len(file.data) = 2
        /\ op[p] = "complete" /\ pc[p] = "idle"

\* the poller is inside a tick: the due call or the notifications of it
InTick == poller.at \in {"calling", "notifying", "popup"}

\* C21: poller delivery, exactly once: over a run of the poller on a store
\* that holds due tasks, with the REPL adding tasks meanwhile, the notifier
\* is invoked at most once for any task.
PollerDeliversOnce ==
    \A i, j \in 1..Len(notifier.invoked) :
        i # j => notifier.invoked[i] # notifier.invoked[j]

\* C22: the poller survives failures: a tick in which the due call or the
\* notifier raises leaves the thread alive and back at the top of the loop,
\* at the start of a full wait; the loop ends only once the stop signal is
\* set.
PollerSurvives ==
    [][/\ poller'.failed > poller.failed =>
             /\ poller'.alive /\ poller'.at = "waiting"
             /\ poller'.waited = 0 /\ poller'.since = now
       /\ poller'.at = "exited" => poller.stop
       /\ ~poller'.alive => poller.stop]_vars

\* a tick raised, and a later tick is delivering a task to the popup channel
PollerSurvivesWitness ==
    /\ poller.failed >= 1
    /\ poller.ticks >= 2
    /\ poller.alive /\ poller.at = "popup"

\* C23: cooperative stop: once the stop signal is set, a tick that is under
\* way runs to its end before the thread is gone.
CooperativeStop ==
    [][(InTick /\ poller.alive) => poller'.alive]_vars

\* C24: no immediate poll: when a tick begins, a full interval has passed
\* since the loop started or since the tick before ended; once the stop
\* signal is set within the first interval, no tick ever begins.
NoImmediatePoll ==
    [][/\ poller'.ticks > poller.ticks => now - poller.since >= PollInterval
       /\ (/\ poller.stop /\ poller.ticks = 0
           /\ poller.stopped_at - poller.since < PollInterval) =>
             poller'.ticks = 0]_vars

\* the second tick of a run has begun
NoImmediatePollWitness ==
    /\ poller.ticks = 2
    /\ poller.at = "calling"
    /\ now - poller.since >= PollInterval

\* C25: a tick that ends has invoked the notifier once for each task its due
\* call returned, in the order returned, and for no other task.
TickNotifiesAll ==
    [][(InTick /\ poller'.at = "waiting") => poller'.called = poller'.returned]_vars

\* the last thing written is the text for the task at hand
TextWritten(task) ==
    /\ notifier.out # <<>>
    /\ notifier.out[Len(notifier.out)] = TextEvent(task)

ProbeOnce ==
    [][/\ notifier.probes <= 1
       /\ notifier.invoked = <<>> => notifier.probes = 0
       /\ notifier.probes = 0 <=> notifier.has_notify_send = "None"
       /\ (poller.at = "popup" /\ poller'.at # "popup") => notifier'.probes = 1
       /\ notifier.has_notify_send # "None" =>
             /\ notifier'.has_notify_send = notifier.has_notify_send
             /\ notifier'.probes = notifier.probes]_vars

\* two popups were launched on one probe
ProbeOnceWitness ==
    /\ notifier.probes = 1
    /\ Len(notifier.out) = 4
    /\ notifier.out[2].channel = "popup" /\ notifier.out[4].channel = "popup"

\* C31: no reminder is lost between store and notifier: once a tick is over,
\* every task that get_due_reminders has marked notified in the backing file
\* has been handed to Notifier.notify.
NoReminderLost ==
    (poller.alive /\ poller.at = "waiting" /\ file.kind = "text") =>
        \A i \in 1..Len(Load(file)) :
            GetField(Load(file)[i], "notified", FALSE) =>
                \E k \in 1..Len(notifier.invoked) :
                    notifier.invoked[k] = Load(file)[i].id

\* the record of `tasks` with the id, as a sequence of at most one record
WithId(tasks, id) == LET Test(t) == t.id = id IN SelectSeq(tasks, Test)

\* C32: records that lack optional fields are tolerated: a pending record
\* without a notified key whose remind_at has come is returned by
\* get_due_reminders and carries notified = TRUE in the result and in the
\* file afterwards; a record without remind_at is never returned by it and
\* is written back as it was; a record without due_at is never listed as
\* overdue; none of these calls raises.
MissingFieldsTolerated ==
    [][\A p \in SeqProcs :
          /\ Loads(p) =>
                LET tasks == Load(file)
                IN  /\ pc'[p] # "raised"
                    /\ \A i \in 1..Len(tasks) :
                          LET t == tasks[i]
                          IN  /\ (/\ op'[p] = "due"
                                  /\ "notified" \notin DOMAIN t
                                  /\ t.status = "pending"
                                  /\ "remind_at" \in DOMAIN t
                                  /\ t.remind_at # NoTime /\ t.remind_at <= now) =>
                                    /\ WithId(ret'[p], t.id) # <<>>
                                    /\ WithId(ret'[p], t.id)[1].notified
                                    /\ WithId(local'[p], t.id)[1].notified
                              /\ (op'[p] = "due" /\ "remind_at" \notin DOMAIN t) =>
                                    /\ WithId(ret'[p], t.id) = <<>>
                                    /\ local'[p] # <<>> => local'[p][i] = t
                              /\ (/\ op'[p] = "list" /\ arg'[p].filter = "overdue"
                                  /\ "due_at" \notin DOMAIN t) =>
                                    WithId(ret'[p], t.id) = <<>>
          /\ (op[p] = "due" /\ pc[p] = "unlocked" /\ pc'[p] = "idle") =>
                /\ file'.ok
                /\ \A k \in 1..Len(ret[p]) :
                      WithId(file'.data, ret[p][k].id)[1].notified]_vars

\* get_due_reminders has returned a record that had no notified key, next to
\* a record without remind_at, and the file has been written
MissingFieldsToleratedWitness ==
    \E p \in SeqProcs :
        /\ op[p] = "due" /\ pc[p] = "idle"
        /\ Len(ret[p]) = 1
        /\ file.ok /\ Len(file.data) = 2
        /\ DOMAIN file.data[1] = {"id", "title", "status", "remind_at", "notified"}
        /\ file.data[1].notified
        /\ ret[p][1] = file.data[1]
        /\ DOMAIN file.data[2] = {"id", "title", "status"}

\* C33: complete_task changes only the status of the one record it resolves:
\* in the file after the call the records are as many and in the same places
\* as before it, every other record is as it was, and the resolved record has
\* status completed and every other field as before; a call that resolves no
\* record leaves the file as it was (one caller).
CompleteChangesStatusOnly ==
    [][\A p \in SeqProcs :
          /\ (Loads(p) /\ op'[p] = "complete" /\ ret'[p] = <<>>) =>
                pc'[p] = "idle" /\ file' = file
          /\ (op[p] = "complete" /\ pc[p] = "unlocked" /\ pc'[p] = "idle") =>
                LET before == committed
                    after == Load(file')
                IN  /\ file'.ok
                    /\ Len(after) = Len(before)
                    /\ \E i \in 1..Len(before) :
                          /\ StartsWith(before[i].id, arg[p].id)
                          /\ \A j \in 1..Len(before) : j # i => after[j] = before[j]
                          /\ DOMAIN after[i] = DOMAIN before[i] \cup {"status"}
                          /\ after[i].status = "completed"
                          /\ \A k \in DOMAIN before[i] \ {"status"} :
                                after[i][k] = before[i][k]
                          /\ ret[p] = <<after[i]>>]_vars

\* a prefix completed the second of two records
CompleteChangesStatusOnlyWitness ==
    \E p \in SeqProcs :
        /\ op[p] = "complete" /\ pc[p] = "idle"
        /\ Len(arg[p].id) < IdLen
        /\ file.ok /\ Len(file.data) = 2
        /\ file.data[1].status = "pending"
        /\ file.data[2].status = "completed"
        /\ ret[p] = <<file.data[2]>>

\* C34: reads have no effect on the store: the step in which get_task or
\* list_tasks (with any filter) runs leaves the backing file as it was and
\* returns at once, and no caller is ever inside a save on behalf of get_task
\* or list_tasks.
ReadsNeverWrite ==
    [][\A p \in Procs :
          /\ (Loads(p) /\ op'[p] \in {"get", "list"}) =>
                /\ file' = file
                /\ committed' = committed
                /\ pc'[p] = "idle"
                /\ local'[p] = <<>>
          /\ op'[p] \in {"get", "list"} => pc'[p] = "idle"]_vars

\* list_tasks returned a part of a file of two records, get_task one record
ReadsNeverWriteWitness ==
    \E p \in SeqProcs :
        /\ pc[p] = "idle"
        /\ file.ok /\ Len(file.data) = 2
        /\ \/ op[p] = "list" /\ arg[p].filter = "completed" /\ Len(ret[p]) = 1
           \/ op[p] = "get" /\ Len(ret[p]) = 1

\* C35: a get_due_reminders call that selects no task performs no write: it
\* returns the empty list in the step of its load, leaving the file as it
\* was, it is never inside a save, and every step that changes the file is a
\* step of the save of another call.
EmptyDueWritesNothing ==
    [][/\ \A p \in Procs :
             /\ (Loads(p) /\ op'[p] = "due" /\ DueOf(Load(file), now) = <<>>) =>
                   /\ ret'[p] = <<>>
                   /\ file' = file
                   /\ pc'[p] = "idle"
                   /\ local'[p] = <<>>
             /\ (op'[p] = "due" /\ ret'[p] = <<>>) => pc'[p] = "idle"
       /\ file' # file =>
             \E q \in Procs :
                 /\ pc[q] \in {"loaded", "unlocked"} /\ pc'[q] # pc[q]
                 /\ ~(op[q] = "due" /\ ret[q] = <<>>)]_vars

\* one caller's get_due_reminders found nothing due and has returned, the
\* other caller's complete_task has loaded the file and saved its change: the
\* file holds the completed task
EmptyDueWritesNothingWitness ==
    /\ op["bg"] = "due" /\ ret["bg"] = <<>> /\ pc["bg"] = "idle"
    /\ op["fg"] = "complete" /\ pc["fg"] = "idle" /\ Len(ret["fg"]) = 1
    /\ file.ok /\ Len(file.data) = 2
    /\ \E i \in 1..2 : file.data[i] = ret["fg"][1] /\ file.data[i].remind_at = NoTime

\* the tokens of `args` before its first flag
Leading(args, flags) ==
    LET at == { i \in 1..Len(args) : args[i] \in flags }
        first == IF at = {} THEN Len(args) + 1
                 ELSE CHOOSE i \in at : \A j \in at : i <= j
    IN  SubSeq(args, 1, first - 1)

\* C37: _parse_args_with_flags returns as title the tokens before any flag
\* joined by single spaces; every option it returns is a recognised flag with
\* the token that follows one of its occurrences as value; a recognised flag
\* that occurs only as the last token is not among the options.
TitleFromLeadingTokens ==
    cli.at = "parsed" =>
        LET args == cli.args
            n == Len(args)
        IN  /\ cli.title = Join(Leading(args, cli.flags))
            /\ \A f \in DOMAIN cli.opts :
                  /\ f \in cli.flags
                  /\ \E i \in 1..(n - 1) : args[i] = f /\ cli.opts[f] = args[i + 1]
            /\ (/\ n > 0 /\ args[n] \in cli.flags
                 /\ \A i \in 1..(n - 1) : args[i] # args[n]) =>
                    args[n] \notin DOMAIN cli.opts

IsDigit(c) == c \in {"0", "1", "2", "3", "4", "5", "6", "7", "8", "9"}

\* YYYY-MM-DD
IsDate(s) ==
    /\ Len(s) = 10
    /\ \A i \in 1..10 : IF i \in {5, 8} THEN s[i] = "-" ELSE IsDigit(s[i])

\* HH:MM
IsHourMinute(s) ==
    /\ Len(s) = 5
    /\ \A i \in 1..5 : IF i = 3 THEN s[i] = ":" ELSE IsDigit(s[i])

\* C38: _normalize_datetime returns a value that holds a T trimmed and
\* otherwise unchanged, turns YYYY-MM-DD HH:MM into YYYY-MM-DDTHH:MM:00,
\* appends T00:00:00 to a date, and applied to its own result returns it.
NormalizeIdempotent ==
    /\ cli.at \in {"once", "twice"} =>
          LET x == cli.value
          IN  /\ Contains(x, "T") => cli.once = strip(x)
              /\ (/\ Len(x) = 16 /\ IsDate(SubSeq(x, 1, 10)) /\ x[11] = Space
                   /\ IsHourMinute(SubSeq(x, 12, 16))) =>
                      cli.once = SubSeq(x, 1, 10) \o <<"T">> \o SubSeq(x, 12, 16)
                                   \o <<":", "0", "0">>
              /\ IsDate(x) =>
                      cli.once = x \o <<"T", "0", "0", ":", "0", "0", ":", "0", "0">>
    /\ cli.at = "twice" => cli.twice = cli.once

\* a date and a time were normalised, and the result normalised again
NormalizeIdempotentWitness ==
    /\ cli.at = "twice"
    /\ cli.value = Date \o <<Space>> \o HourMinute
    /\ cli.once = Date \o <<"T">> \o HourMinute \o <<":", "0", "0">>
    /\ cli.twice = cli.once

\* run has been left, by return or by an exception
RunLeft(c) == c.at \in {"returned", "raised"}

\* C36: every exit of run (quit, exit, end of input, keyboard interrupt) has
\* set the stop signal by the time run is left, and an unknown command, an
\* empty line, a parse error or a command with missing arguments leaves the
\* REPL at its next input with the stop signal not set.
RunExitsSetStop ==
    [][/\ RunLeft(cli') => poller'.stop
       /\ (cli.at = "input" /\ calls' = calls + 1 /\ cli'.line \in IdleLines) =>
             cli'.at = "input" /\ ~poller'.stop]_vars

====
